---- MODULE Spec2Model ----
(***************************************************************************)
(* A model of the CombinedOrch educational-tool chatbot: the fallback      *)
(* memory store of EducationalMemoryService, the tool matcher, confidence  *)
(* scorer, fallback analyzer and response composer of IntentClassifier,    *)
(* the AnalyticsService counters and the POST /chat handler.               *)
(*                                                                         *)
(* Text is modelled as TLA+ strings (sequences of characters); Python's    *)
(* str operations are defined below by what they do on the characters.     *)
(* Scores are integers scaled by 100 (0.7 is 70).                          *)
(***************************************************************************)
EXTENDS Integers, Sequences, FiniteSets, TLC

VARIABLES
    fallback_memory,     \* EducationalMemoryService.fallback_memory: user id -> list of entries
    clock,               \* the value datetime.now() gives to the next entry
    writes,              \* number of appends made so far in this run
    request_count,       \* AnalyticsService.request_count
    successful_queries,  \* AnalyticsService.successful_queries
    failed_queries,      \* AnalyticsService.failed_queries
    args,                \* the arguments of the call under study (pure-function specifications)
    calls,               \* the store_interaction calls running concurrently: each call's
                         \* position and the list objects the calls hold
    last                 \* the last completed operation and what it returned

vars == <<fallback_memory, clock, writes, request_count, successful_queries,
          failed_queries, args, calls, last>>
memVars == <<fallback_memory, clock, writes>>
analyticsVars == <<request_count, successful_queries, failed_queries>>

None == "None"

(***************************************************************************)
(* Python str operations                                                   *)
(***************************************************************************)

\* sub in s
Contains(s, sub) ==
    \E i \in 1..(Len(s) - Len(sub) + 1) : SubSeq(s, i, i + Len(sub) - 1) = sub

UPPER == "ABCDEFGHIJKLMNOPQRSTUVWXYZ"
LOWER == "abcdefghijklmnopqrstuvwxyz"

IsSpace(c) == c \in {" ", "\t", "\n"}

\* s.lower()
RECURSIVE Lower(_)
Lower(s) ==
    LET IsUpper(c) == \E i \in 1..Len(UPPER) : SubSeq(UPPER, i, i) = c
        LowerChar(c) ==
            IF IsUpper(c)
            THEN LET i == CHOOSE j \in 1..Len(UPPER) : SubSeq(UPPER, j, j) = c
                 IN  SubSeq(LOWER, i, i)
            ELSE c
    IN
    IF s = "" THEN ""
    ELSE IF Len(s) = 1 THEN LowerChar(s)
    ELSE LET half == Len(s) \div 2
         IN  Lower(SubSeq(s, 1, half)) \o Lower(SubSeq(s, half + 1, Len(s)))

RECURSIVE LStrip(_)
LStrip(s) == IF s # "" /\ IsSpace(Head(s)) THEN LStrip(Tail(s)) ELSE s

RECURSIVE RStrip(_)
RStrip(s) ==
    IF s # "" /\ IsSpace(SubSeq(s, Len(s), Len(s)))
    THEN RStrip(SubSeq(s, 1, Len(s) - 1))
    ELSE s

\* s.strip()
Strip(s) == RStrip(LStrip(s))

RECURSIVE SplitWs(_, _, _)
SplitWs(s, cur, acc) ==
    IF s = ""
    THEN IF cur = "" THEN acc ELSE Append(acc, cur)
    ELSE IF IsSpace(Head(s))
         THEN SplitWs(Tail(s), "", IF cur = "" THEN acc ELSE Append(acc, cur))
         ELSE SplitWs(Tail(s), cur \o Head(s), acc)

\* s.split(): the maximal runs of non-whitespace characters
Split(s) == SplitWs(s, "", <<>>)

\* sep.join(parts)
RECURSIVE Join(_, _)
Join(parts, sep) ==
    IF parts = <<>> THEN ""
    ELSE IF Len(parts) = 1 THEN parts[1]
    ELSE parts[1] \o sep \o Join(Tail(parts), sep)

\* d.get(key, default)
Get(d, key, default) == IF key \in DOMAIN d THEN d[key] ELSE default

\* any(x in s for x in list)
AnyIn(list, s) == \E i \in 1..Len(list) : Contains(s, list[i])

\* x in list
InList(x, list) == \E i \in 1..Len(list) : list[i] = x

\* list[-n:]
LastN(list, n) ==
    IF Len(list) <= n THEN list ELSE SubSeq(list, Len(list) - n + 1, Len(list))

\* list[:n]
FirstN(list, n) == IF Len(list) <= n THEN list ELSE SubSeq(list, 1, n)

Range(list) == {list[i] : i \in 1..Len(list)}

\* the lists that enumerate the finite set S once each: the orders in which
\* list(set(...)) may deliver it
Orderings(S) ==
    {f \in [1..Cardinality(S) -> S] : \A i, j \in 1..Cardinality(S) : f[i] = f[j] => i = j}

(***************************************************************************)
(* The inputs of the model                                                 *)
(***************************************************************************)

UserIds == {"u1", "u2"}

\* query texts given to store_interaction
StoreQueries ==
    {"hi", "  Hi ", "what tools do you have", "quiz please", "math quiz", "I teach math",
     "I always use group work for my 5th grade math class",
     "please find something useful for tomorrow"}

\* query texts sent to POST /chat and to classify_intent
ChatQueries ==
    {"", "   ", "My students seem bored during class", "Can you make a QUIZ, please?",
     "I need a lesson plan for my math class", "hi"}

Queries == StoreQueries \cup ChatQueries

\* response dicts given to store_interaction
StoreResponses ==
    {[query_type |-> "UNCLEAR", confidence_score |-> 40, recommendations |-> <<>>],
     [query_type |-> "ASSESSMENT", confidence_score |-> 85,
      recommendations |-> <<"Quiz Generator">>]}

\* preference dicts given to update_user_preferences
PreferenceValues == {[style |-> "visual"]}

\* appends allowed in one run of Spec
MaxWrites == 2

\* the one user and the store calls of the long runs of SpecDeep
DeepUserIds == {"u1"}
DeepStoreCalls ==
    {<<"I teach math",
       [query_type |-> "UNCLEAR", confidence_score |-> 40, recommendations |-> <<>>]>>,
     <<"please find something useful for tomorrow",
       [query_type |-> "UNCLEAR", confidence_score |-> 40, recommendations |-> <<>>]>>}

\* appends allowed in one run of SpecDeep
MaxDeepWrites == 7

\* appends allowed in one run of SpecCap
MaxCapWrites == 3

(***************************************************************************)
(* EducationalMemoryService (services/memory_service.py), fallback store   *)
(***************************************************************************)

\* confidence_score < 0.7 is the low-confidence threshold, > 0.8 the success one
LOW_CONFIDENCE == 70
HIGH_CONFIDENCE == 80
MIN_WORDS == 3
LOW_CONFIDENCE_WORDS == 5
MAX_ENTRIES == 50
CONTEXT_WINDOW == 5
MAX_QUERIES == 3
MAX_CATEGORIES == 3
MAX_TOOLS == 5
MAX_CONTEXT_TEXT == 100

\* The text-scanning steps evaluated once for each query text of the model
indicator_reasons ==
    LET preference_indicators ==
            <<"i prefer", "i like", "i don't like", "i hate", "i avoid",
              "i always", "i never", "my students", "my class", "my teaching style",
              "i teach", "grade level", "subject area", "curriculum">>
        feedback_indicators ==
            <<"this worked well", "this didn't work", "perfect", "exactly what i needed",
              "not helpful", "great suggestion", "love this tool", "hate this tool",
              "better than", "worse than", "prefer this over">>
        pattern_indicators ==
            <<"again", "similar to", "like before", "as usual", "typically",
              "my usual", "my go-to", "i often", "frequently", "regularly">>
        style_indicators ==
            <<"interactive", "hands-on", "visual", "creative", "traditional",
              "project-based", "collaborative", "individual", "group work",
              "assessment focused", "creative assignments">>
        subject_indicators ==
            <<"math", "science", "english", "history", "art", "music",
              "elementary", "middle school", "high school", "kindergarten",
              "1st grade", "2nd grade", "3rd grade", "4th grade", "5th grade">>
        \* the indicator groups that match the lower-cased query, in the order the code
        \* appends them to store_reasons
        IndicatorReasons(query) ==
            LET q == Lower(query) IN
              (IF AnyIn(preference_indicators, q) THEN <<"user_preferences">> ELSE <<>>)
           \o (IF AnyIn(feedback_indicators, q) THEN <<"tool_feedback">> ELSE <<>>)
           \o (IF AnyIn(pattern_indicators, q) THEN <<"usage_pattern">> ELSE <<>>)
           \o (IF AnyIn(style_indicators, q) THEN <<"teaching_style">> ELSE <<>>)
           \o (IF AnyIn(subject_indicators, q) THEN <<"subject_context">> ELSE <<>>)
    IN
    [q \in Queries |-> IndicatorReasons(q)]
word_count == [q \in Queries |-> Len(Split(q))]
is_generic_query ==
    LET generic_queries ==
            <<"hello", "hi", "help", "what can you do", "how are you",
              "test", "testing", "check", "status", "help me", "what tools do you have",
              "what tools", "show me tools", "list tools">>
        \* query.lower().strip() in generic_queries
        IsGenericQuery(query) == InList(Strip(Lower(query)), generic_queries)
    IN
    [q \in Queries |-> IsGenericQuery(q)]

\* _should_store_memory from its step 7 on: the too-short exclusion, the
\* low-confidence inclusion and the decision
StoreDecisionAfterGeneric(query, response) ==
    LET indicated == indicator_reasons[query]
        words == word_count[query]
    IN  IF words < MIN_WORDS /\ indicated = <<>>
        THEN <<FALSE, "too_short">>
        ELSE LET store_reasons ==
                     indicated \o
                     (IF response.confidence_score < LOW_CONFIDENCE
                         /\ words >= LOW_CONFIDENCE_WORDS
                      THEN <<"low_confidence">> ELSE <<>>)
             IN  IF store_reasons # <<>>
                 THEN <<TRUE, "storing_for: " \o Join(store_reasons, ", ")>>
                 ELSE <<FALSE, "no_personalization_value">>

\* _should_store_memory with the generic-query exclusion left out
ShouldStoreNoGenericCheck(query, response) == StoreDecisionAfterGeneric(query, response)

\* _should_store_memory with the too-short exclusion firing whatever indicators
\* matched
ShouldStoreShortFirst(query, response) ==
    IF is_generic_query[query] THEN <<FALSE, "generic_query">>
    ELSE IF word_count[query] < MIN_WORDS THEN <<FALSE, "too_short">>
    ELSE StoreDecisionAfterGeneric(query, response)

\* _should_store_memory(user_id, query, response, context): <<should_store, reason>>
_should_store_memory(query, response) ==
    IF is_generic_query[query]
    THEN <<FALSE, "generic_query">>
    ELSE StoreDecisionAfterGeneric(query, response)

query_parts ==
    LET \* _extract_personalization_info: the parts that depend on the query alone, as
        \* [before, after]: the preference, teaching-context and feedback sentences come
        \* before the successful-recommendation sentence, subject and grade after it
        QueryParts(query) ==
            LET q == Lower(query)
                subjects == <<"math", "science", "english", "history", "art", "music">>
                grades == <<"elementary", "middle school", "high school", "kindergarten">>
                FirstIn(list) == list[CHOOSE i \in 1..Len(list) :
                                         /\ Contains(q, list[i])
                                         /\ \A j \in 1..(i - 1) : ~Contains(q, list[j])]
            IN  [before |->
                    (IF AnyIn(<<"prefer", "like", "don't like", "avoid", "always", "never">>, q)
                     THEN <<"User preference: " \o query>> ELSE <<>>)
                 \o (IF AnyIn(<<"teach", "grade", "subject", "class", "students">>, q)
                     THEN <<"Teaching context: " \o query>> ELSE <<>>)
                 \o (IF AnyIn(<<"worked well", "didn't work", "perfect", "not helpful", "love", "hate">>, q)
                     THEN <<"Tool feedback: " \o query>> ELSE <<>>),
                 after |->
                    (IF AnyIn(subjects, q) THEN <<"Subject focus: " \o FirstIn(subjects)>> ELSE <<>>)
                 \o (IF AnyIn(grades, q) THEN <<"Grade level: " \o FirstIn(grades)>> ELSE <<>>)]
    IN
    [q \in Queries |-> QueryParts(q)]

\* _extract_personalization_info(query, response, context)
_extract_personalization_info(query, response) ==
    LET parts ==
            query_parts[query].before
         \o (IF response.confidence_score > HIGH_CONFIDENCE /\ response.recommendations # <<>>
             THEN <<"Successfully recommended: " \o Join(response.recommendations, ", ")
                    \o " for " \o response.query_type \o " needs">>
             ELSE <<>>)
         \o query_parts[query].after
    IN  IF parts = <<>>
        THEN "User asked about " \o response.query_type \o " tools"
        ELSE Join(parts, ". ")

\* the entry store_interaction appends to the fallback list
StoreEntry(query, response, reason, now) ==
    [timestamp |-> now,
     personalization_content |-> _extract_personalization_info(query, response),
     query_type |-> response.query_type,
     store_reason |-> reason,
     confidence_score |-> response.confidence_score]

\* the entry update_user_preferences appends to the fallback list
PreferenceEntry(preferences, now) ==
    [type |-> "preferences", timestamp |-> now, preferences |-> preferences]

\* the list of user_id, [] when the key is absent
EntriesOf(mem, user_id) == IF user_id \in DOMAIN mem THEN mem[user_id] ELSE <<>>

\* a store holding nothing but the list of user_id
WithEntriesAlone(mem, user_id, list) == [u \in {user_id} |-> list]

\* mem with key user_id bound to list (the key is created when absent)
WithEntries(mem, user_id, list) ==
    [u \in DOMAIN mem \cup {user_id} |-> IF u = user_id THEN list ELSE mem[u]]

\* the fallback store after store_interaction(user_id, query, response) once the
\* store decision is <<TRUE, reason>>
StoredMemory(mem, user_id, query, response, reason, now) ==
    LET \* store_interaction, fallback branch: append, then keep only the last 50
        AppendAndTrim(list, entry) ==
            LET appended == Append(list, entry)
            IN  IF Len(appended) > MAX_ENTRIES THEN LastN(appended, MAX_ENTRIES) ELSE appended
    IN
    WithEntries(mem, user_id,
                AppendAndTrim(EntriesOf(mem, user_id),
                              StoreEntry(query, response, reason, now)))

\* the fallback store after update_user_preferences(user_id, preferences)
PreferencesMemory(mem, user_id, preferences, now) ==
    WithEntries(mem, user_id,
                Append(EntriesOf(mem, user_id), PreferenceEntry(preferences, now)))

\* clear_user_memory that empties the list and keeps the key
ClearedKeepKey(mem, user_id) ==
    [u \in DOMAIN mem |-> IF u = user_id THEN <<>> ELSE mem[u]]

\* the fallback store after clear_user_memory(user_id): del fallback_memory[user_id]
ClearedMemory(mem, user_id) ==
    [u \in DOMAIN mem \ {user_id} |-> mem[u]]

\* store_reason strings that _should_store_memory can produce
STORE_REASON_NAMES ==
    <<"user_preferences", "tool_feedback", "usage_pattern", "teaching_style",
      "subject_context", "low_confidence">>

RECURSIVE SubList(_, _)
SubList(list, S) ==
    IF list = <<>> THEN <<>>
    ELSE (IF Len(list) \in S THEN SubList(SubSeq(list, 1, Len(list) - 1), S) \o <<list[Len(list)]>>
          ELSE SubList(SubSeq(list, 1, Len(list) - 1), S))

reason_patterns ==
    LET StoreReasons ==
            {"storing_for: " \o Join(SubList(STORE_REASON_NAMES, S), ", ") :
                S \in (SUBSET (1..Len(STORE_REASON_NAMES))) \ {{}}}
        \* get_user_context, fallback format: what one store_reason adds to teaching_patterns
        ReasonPatterns(reason) ==
               (IF Contains(reason, "user_preferences") THEN <<"Has expressed preferences">> ELSE <<>>)
            \o (IF Contains(reason, "tool_feedback") THEN <<"Provides feedback on tools">> ELSE <<>>)
            \o (IF Contains(reason, "subject_context") THEN <<"Subject-specific teacher">> ELSE <<>>)
    IN
    [r \in StoreReasons |-> ReasonPatterns(r)]

NoContext == [has_context |-> FALSE, context |-> "No previous interactions found"]

\* relevant_memories of get_user_context on the fallback store: the last 5 entries
RelevantMemories(mem, user_id) == LastN(EntriesOf(mem, user_id), CONTEXT_WINDOW)

RECURSIVE CollectField(_, _)
\* [m[field] for m in memories if field in m]
CollectField(memories, field) ==
    IF memories = <<>> THEN <<>>
    ELSE (IF field \in DOMAIN Head(memories) THEN <<Head(memories)[field]>> ELSE <<>>)
         \o CollectField(Tail(memories), field)

RECURSIVE CollectPatterns(_)
CollectPatterns(memories) ==
    IF memories = <<>> THEN <<>>
    ELSE (IF "store_reason" \in DOMAIN Head(memories)
          THEN reason_patterns[Head(memories).store_reason] ELSE <<>>)
         \o CollectPatterns(Tail(memories))

\* s.split(sep) for a non-empty sep
RECURSIVE SplitOn(_, _)
SplitOn(s, sep) ==
    LET hits == {i \in 1..(Len(s) - Len(sep) + 1) : SubSeq(s, i, i + Len(sep) - 1) = sep}
    IN  IF hits = {} THEN <<s>>
        ELSE LET first == CHOOSE i \in hits : \A k \in hits : i <= k
             IN  <<SubSeq(s, 1, first - 1)>>
                 \o SplitOn(SubSeq(s, first + Len(sep), Len(s)), sep)

\* memory_text.split(label)[1].split(".")[0].strip(), in a list; [] without label
LabelledText(memory_text, label) ==
    IF Contains(memory_text, label)
    THEN <<Strip(SplitOn(SplitOn(memory_text, label)[2], ".")[1])>>
    ELSE <<>>

\* lines 276-289 and 303-306, mem0 Platform format: what one memory text adds
\* to previous_queries
PlatformQueries(memory_text) ==
    LET \* the labels _extract_personalization_info puts before its sentences
        MEMORY_LABELS ==
            <<"User preference:", "Teaching context:", "Tool feedback:",
              "Successfully recommended:", "Subject focus:", "Grade level:">>
    IN
       LabelledText(memory_text, "User preference:")
    \o LabelledText(memory_text, "Teaching context:")
    \o LabelledText(memory_text, "Tool feedback:")
    \o (IF memory_text # "" /\ ~AnyIn(MEMORY_LABELS, memory_text)
        THEN <<FirstN(memory_text, MAX_CONTEXT_TEXT)>> ELSE <<>>)

\* lines 291-295: the tool names of the "Successfully recommended:" sentence
PlatformTools(memory_text) ==
    IF Contains(memory_text, "Successfully recommended:")
    THEN LET names == SplitOn(SplitOn(LabelledText(memory_text,
                                                   "Successfully recommended:")[1],
                                      "for")[1], ",")
         IN  [i \in 1..Len(names) |-> Strip(names[i])]
    ELSE <<>>

\* lines 297-303: subject and grade of one memory text
PlatformCategories(memory_text) ==
    LabelledText(memory_text, "Subject focus:") \o LabelledText(memory_text, "Grade level:")

\* lines 266-330: the four lists collected from relevant_memories, as
\* [queries, categories, tools, patterns]; a Platform memory is its text, a
\* fallback memory the stored entry
RECURSIVE CollectedContext(_, _)
CollectedContext(using_platform, relevant_memories) ==
    IF relevant_memories = <<>>
    THEN [queries |-> <<>>, categories |-> <<>>, tools |-> <<>>, patterns |-> <<>>]
    ELSE LET memory == Head(relevant_memories)
             rest == CollectedContext(using_platform, Tail(relevant_memories))
         IN  IF using_platform
             THEN [queries |-> PlatformQueries(memory) \o rest.queries,
                   categories |-> PlatformCategories(memory) \o rest.categories,
                   tools |-> PlatformTools(memory) \o rest.tools,
                   patterns |-> rest.patterns]
             ELSE [queries |-> CollectField(<<memory>>, "personalization_content")
                                  \o rest.queries,
                   categories |-> CollectField(<<memory>>, "query_type") \o rest.categories,
                   tools |-> rest.tools,
                   patterns |-> CollectPatterns(<<memory>>) \o rest.patterns]

\* the context built from the collected lists without deduplication or caps
ContextInfoRaw(collected, order, tool_order, common) ==
    [has_context |-> TRUE,
     previous_queries |-> collected.queries,
     frequent_categories |-> collected.categories,
     recent_tools |-> collected.tools,
     teaching_patterns |-> collected.patterns]

\* lines 333-358: the lists deduplicated and capped, the teaching patterns and
\* has_context. order and tool_order are the orders in which
\* list(set(frequent_categories)) and list(set(recent_tools)) deliver their
\* elements, common the element max(set(...), key=count) returns: all three
\* depend on the iteration order of a set, which the call does not fix.
ContextInfo(collected, order, tool_order, common) ==
    LET previous_queries == FirstN(collected.queries, MAX_QUERIES)
        frequent_categories == FirstN(order, MAX_CATEGORIES)
        recent_tools == FirstN(tool_order, MAX_TOOLS)
        teaching_patterns ==
            IF frequent_categories # <<>>
            THEN <<"Frequently asks about " \o Lower(common) \o " related topics",
                   "Has used " \o ToString(Len(recent_tools)) \o " different tools recently">>
            ELSE collected.patterns
    IN  [has_context |-> \/ previous_queries # <<>>
                         \/ frequent_categories # <<>>
                         \/ recent_tools # <<>>
                         \/ teaching_patterns # <<>>,
         previous_queries |-> previous_queries,
         frequent_categories |-> frequent_categories,
         recent_tools |-> recent_tools,
         teaching_patterns |-> teaching_patterns]

\* get_user_context(user_id, current_query) once relevant_memories is
\* retrieved and the lists are collected from it
get_user_context(relevant_memories, collected, order, tool_order, common) ==
    IF relevant_memories = <<>> THEN NoContext
    ELSE ContextInfo(collected, order, tool_order, common)

\* the elements max(set(...), key=count) may return for the capped categories
CommonChoices(order) ==
    IF order = <<>> THEN {""} ELSE Range(FirstN(order, MAX_CATEGORIES))

\* the contexts get_user_context may return for relevant_memories, one for each
\* iteration order of the sets
MemoryContexts(using_platform, relevant_memories) ==
    LET collected == CollectedContext(using_platform, relevant_memories) IN
    UNION {{get_user_context(relevant_memories, collected, order, tool_order, common) :
               common \in CommonChoices(order)} :
              order \in Orderings(Range(collected.categories)),
              tool_order \in Orderings(Range(collected.tools))}

\* the contexts get_user_context(user_id, _) may return in this state
UserContexts(mem, user_id) == MemoryContexts(FALSE, RelevantMemories(mem, user_id))

(***************************************************************************)
(* The operations of the memory service as actions                         *)
(***************************************************************************)

\* store_interaction(user_id, query, response): skipped when the store decision
\* is False, else one entry appended and the list trimmed; returns True
StoreInteraction(user_id, query, response, maxWrites) ==
    LET decision == _should_store_memory(query, response) IN
    /\ decision[1] => writes < maxWrites
    /\ fallback_memory' =
          IF decision[1]
          THEN StoredMemory(fallback_memory, user_id, query, response, decision[2], clock)
          ELSE fallback_memory
    /\ clock' = IF decision[1] THEN clock + 1 ELSE clock
    /\ writes' = IF decision[1] THEN writes + 1 ELSE writes
    /\ last' = [op |-> "store_interaction", user_id |-> user_id, query |-> query,
                response |-> response, stored |-> decision[1], reason |-> decision[2],
                content |-> IF decision[1]
                            THEN _extract_personalization_info(query, response)
                            ELSE None,
                returned |-> TRUE]
    /\ UNCHANGED <<analyticsVars, args, calls>>

\* get_user_context(user_id, current_query); the fallback store ignores current_query
GetUserContext(user_id) ==
    /\ \E context \in UserContexts(fallback_memory, user_id) :
          last' = [op |-> "get_user_context", user_id |-> user_id, returned |-> context]
    /\ UNCHANGED <<memVars, analyticsVars, args, calls>>

\* update_user_preferences(user_id, preferences)
UpdateUserPreferences(user_id, preferences, maxWrites) ==
    /\ writes < maxWrites
    /\ fallback_memory' = PreferencesMemory(fallback_memory, user_id, preferences, clock)
    /\ clock' = clock + 1
    /\ writes' = writes + 1
    /\ last' = [op |-> "update_user_preferences", user_id |-> user_id]
    /\ UNCHANGED <<analyticsVars, args, calls>>

\* clear_user_memory(user_id)
ClearUserMemory(user_id) ==
    /\ fallback_memory' = ClearedMemory(fallback_memory, user_id)
    /\ last' = [op |-> "clear_user_memory", user_id |-> user_id,
                had_key |-> user_id \in DOMAIN fallback_memory]
    /\ UNCHANGED <<clock, writes, analyticsVars, args, calls>>

\* EducationalMemoryService.__init__ without MEM0_API_KEY, AnalyticsService.__init__
Init ==
    /\ fallback_memory = <<>>
    /\ clock = 0
    /\ writes = 0
    /\ request_count = 0
    /\ successful_queries = 0
    /\ failed_queries = 0
    /\ args = None
    /\ calls = [pc |-> <<>>]
    /\ last = [op |-> "init"]

\* the services as constructed and one input, drawn from inputs, for the one
\* function a specification calls
InitPure(inputs) ==
    /\ fallback_memory = <<>>
    /\ clock = 0
    /\ writes = 0
    /\ request_count = 0
    /\ successful_queries = 0
    /\ failed_queries = 0
    /\ args \in inputs
    /\ calls = [pc |-> <<>>]
    /\ last = [op |-> "init"]

Next ==
    \/ \E u \in UserIds, q \in StoreQueries, r \in StoreResponses :
          StoreInteraction(u, q, r, MaxWrites)
    \/ \E u \in UserIds : GetUserContext(u)
    \/ \E u \in UserIds, p \in PreferenceValues : UpdateUserPreferences(u, p, MaxWrites)
    \/ \E u \in UserIds : ClearUserMemory(u)

Spec == Init /\ [][Next]_vars

(***************************************************************************)
(* Long runs of one user's list, from the empty store                      *)
(***************************************************************************)

NextDeep ==
    \/ \E u \in DeepUserIds, c \in DeepStoreCalls :
          StoreInteraction(u, c[1], c[2], MaxDeepWrites)
    \/ \E u \in DeepUserIds : GetUserContext(u)
    \/ \E u \in DeepUserIds, p \in PreferenceValues :
          UpdateUserPreferences(u, p, MaxDeepWrites)
    \/ \E u \in DeepUserIds : ClearUserMemory(u)

SpecDeep == Init /\ [][NextDeep]_vars

(***************************************************************************)
(* Runs at the cap: the store after MAX_ENTRIES - 1 accepted               *)
(* store_interaction calls of one user, then a few more operations         *)
(***************************************************************************)

\* the fallback store after n accepted calls store_interaction(user_id, query,
\* response) on the empty store, 0 < n <= MAX_ENTRIES: no call trims the list
StoreRun(user_id, query, response, n) ==
    WithEntries(<<>>, user_id,
                [i \in 1..n |->
                    StoreEntry(query, response,
                               _should_store_memory(query, response)[2], i - 1)])

InitCap ==
    /\ fallback_memory =
          StoreRun("u1", "I teach math",
                   [query_type |-> "UNCLEAR", confidence_score |-> 40,
                    recommendations |-> <<>>], MAX_ENTRIES - 1)
    /\ clock = MAX_ENTRIES - 1
    /\ writes = 0
    /\ request_count = 0
    /\ successful_queries = 0
    /\ failed_queries = 0
    /\ args = None
    /\ calls = [pc |-> <<>>]
    /\ last = [op |-> "init"]

NextCap ==
    \/ \E u \in DeepUserIds, c \in DeepStoreCalls :
          StoreInteraction(u, c[1], c[2], MaxCapWrites)
    \/ \E u \in DeepUserIds : GetUserContext(u)
    \/ \E u \in DeepUserIds, p \in PreferenceValues :
          UpdateUserPreferences(u, p, MaxCapWrites)
    \/ \E u \in DeepUserIds : ClearUserMemory(u)

SpecCap == InitCap /\ [][NextCap]_vars

(***************************************************************************)
(* Properties                                                              *)
(***************************************************************************)

\* has_context of every context get_user_context(user_id, _) may return
HasContext(mem, user_id) == \A context \in UserContexts(mem, user_id) : context.has_context

\* C2: store_interaction that stores, followed immediately by get_user_context
\* for the same user, returns has_context = True and previous_queries holds the
\* personalization sentence just stored.
C2_RoundTrip ==
    (last.op = "store_interaction" /\ last.stored) =>
        \A context \in UserContexts(fallback_memory, last.user_id) :
            /\ context.has_context
            /\ InList(last.content, context.previous_queries)

\* C3: after clear_user_memory(u) the user's key is gone from the map and the
\* next get_user_context(u, _) returns has_context = False.
C3_ClearThenNoContext ==
    last.op = "clear_user_memory" =>
        /\ last.user_id \notin DOMAIN fallback_memory
        /\ \A context \in UserContexts(fallback_memory, last.user_id) :
              ~context.has_context

C3_Witness ==
    /\ last.op = "clear_user_memory"
    /\ last.had_key
    /\ writes = MaxWrites
    /\ DOMAIN fallback_memory # {}

\* C4: every user's list holds at most 50 entries, in insertion order
\* (timestamps increase along the list).
C4_CapAndOrder ==
    \A u \in DOMAIN fallback_memory :
        /\ Len(fallback_memory[u]) <= MAX_ENTRIES
        /\ \A i, j \in 1..Len(fallback_memory[u]) :
              i < j => fallback_memory[u][i].timestamp < fallback_memory[u][j].timestamp

\* C5: once a user has context, every step other than clear_user_memory of that
\* user leaves the user with context.
C5_HasContextMonotone ==
    [][\A u \in DeepUserIds :
          (HasContext(fallback_memory, u)
             /\ ~(last'.op = "clear_user_memory" /\ last'.user_id = u))
          => HasContext(fallback_memory', u)]_vars

\* C10: a store_interaction call whose query, lower-cased and trimmed, is in the
\* generic list is decided (False, "generic_query") and leaves the store as it was.
C10_GenericNeverStored ==
    [][(last'.op = "store_interaction" /\ is_generic_query[last'.query]) =>
          /\ last'.reason = "generic_query"
          /\ ~last'.stored
          /\ fallback_memory' = fallback_memory]_vars

C10_Witness ==
    /\ last.op = "store_interaction"
    /\ last.query = "what tools do you have"
    /\ last.response.confidence_score < LOW_CONFIDENCE
    /\ word_count[last.query] >= LOW_CONFIDENCE_WORDS
    /\ last.reason = "generic_query"
    /\ fallback_memory # <<>>

\* C11: for a query outside the generic list, store_interaction stores exactly
\* when an indicator group matches the lower-cased query or the confidence score
\* is below 0.7 and the query has at least 5 words; "too_short" is the reason
\* only for a query of fewer than 3 words that no indicator group matched, and a
\* short query that matches an indicator is stored.
C11_StoreDecision ==
    (last.op = "store_interaction" /\ ~is_generic_query[last.query]) =>
        LET indicated == indicator_reasons[last.query] # <<>>
            short == word_count[last.query] < MIN_WORDS
            low == /\ last.response.confidence_score < LOW_CONFIDENCE
                   /\ word_count[last.query] >= LOW_CONFIDENCE_WORDS
        IN  /\ last.stored <=> (indicated \/ low)
            /\ (last.reason = "too_short") <=> (short /\ ~indicated)
            /\ (short /\ indicated) => last.stored

C11_Witness ==
    /\ last.op = "store_interaction"
    /\ last.query = "math quiz"
    /\ word_count[last.query] < MIN_WORDS
    /\ last.stored
    /\ last.reason = "storing_for: subject_context"

(***************************************************************************)
(* Context retrieval on its own: one call on each list of retrieved        *)
(* memories, in the mem0 Platform format and in the fallback format        *)
(***************************************************************************)

\* the lists that keep some elements of list, in their order
SubLists(list) ==
    LET Kept(I) == [k \in 1..Cardinality(I) |->
                      list[CHOOSE i \in I : Cardinality({j \in I : j < i}) = k - 1]]
    IN  {Kept(I) : I \in SUBSET (1..Len(list))}

\* the most entries of one fallback window
MaxFallbackMemories == 4

ContextInputs ==
    LET \* a ranked list of memory texts as a Platform search returns them: sentences
        \* in the format of _extract_personalization_info, and one without a label
        PlatformHistory ==
            <<"Tool feedback: the quiz was great. Successfully recommended: Quiz Generator, "
                \o "Worksheet Generator, Lesson Planner for ASSESSMENT needs",
              "Teaching context: exam week. Successfully recommended: Quiz Generator, Rubric "
                \o "Generator, Homework Generator, Exit Ticket Generator for ASSESSMENT needs. "
                \o "Subject focus: math",
              "Teaching context: I teach math. Subject focus: math. Grade level: elementary",
              "User preference: I prefer visuals. Subject focus: science. Grade level: high school">>
        GeneralHistory ==
            <<"likes group work",
              "Tool feedback: too long. Grade level: elementary">>
        \* entries of the fallback list: one per query type, and a preference entry
        FallbackEntries ==
            {StoreEntry("please find something useful for tomorrow",
                        [query_type |-> t, confidence_score |-> 40, recommendations |-> <<>>],
                        "storing_for: low_confidence", 0) :
                t \in {"ASSESSMENT", "UNCLEAR", "GENERAL_PLANNING", "VISUAL_CONTENT"}}
            \cup {PreferenceEntry([style |-> "visual"], 0)}
    IN
    {[using_platform |-> TRUE, relevant_memories |-> m] :
        m \in SubLists(PlatformHistory) \cup SubLists(GeneralHistory)}
    \cup {[using_platform |-> FALSE, relevant_memories |-> m] :
             m \in UNION {[1..k -> FallbackEntries] : k \in 0..MaxFallbackMemories}}

\* one call get_user_context that retrieves args.relevant_memories
ContextOfMemories ==
    /\ last.op = "init"
    /\ \E collected \in {CollectedContext(args.using_platform, args.relevant_memories)} :
          \E order \in Orderings(Range(collected.categories)),
             tool_order \in Orderings(Range(collected.tools)) :
             \E common \in CommonChoices(order) :
                last' = [op |-> "get_user_context",
                         using_platform |-> args.using_platform,
                         relevant_memories |-> args.relevant_memories,
                         collected |-> collected,
                         returned |-> get_user_context(args.relevant_memories, collected,
                                                       order, tool_order, common)]
    /\ UNCHANGED <<memVars, analyticsVars, args, calls>>

SpecContext == InitPure(ContextInputs) /\ [][ContextOfMemories]_vars

\* C18: a context returned with has_context = True has at most 3
\* previous_queries, at most 3 frequent_categories without duplicates and at
\* most 5 recent_tools without duplicates.
C18_ContextListsCapped ==
    (last.op = "get_user_context" /\ last.returned.has_context) =>
        LET context == last.returned
            NoDuplicates(list) ==
                \A i, j \in 1..Len(list) : list[i] = list[j] => i = j
        IN  /\ Len(context.previous_queries) <= MAX_QUERIES
            /\ Len(context.frequent_categories) <= MAX_CATEGORIES
            /\ NoDuplicates(context.frequent_categories)
            /\ Len(context.recent_tools) <= MAX_TOOLS
            /\ NoDuplicates(context.recent_tools)

C18_Witness ==
    /\ last.op = "get_user_context"
    /\ last.using_platform
    /\ last.returned.has_context
    /\ Len(last.returned.recent_tools) = MAX_TOOLS
    /\ Len(last.returned.frequent_categories) = MAX_CATEGORIES
    /\ Len(last.returned.previous_queries) = MAX_QUERIES
    /\ Len(last.collected.queries) > MAX_QUERIES
    /\ Cardinality(Range(last.collected.tools)) > MAX_TOOLS
    /\ Cardinality(Range(last.collected.categories))
           > MAX_CATEGORIES
    /\ Len(last.collected.categories)
           > Cardinality(Range(last.collected.categories))

(***************************************************************************)
(* EducationalToolKnowledgeBase: the tool catalog                          *)
(***************************************************************************)

\* the keys of self.tools in insertion order
tool_keys ==
    <<"curriculum-plan-agent", "classgoals-milestone-agent",
      "teaching-agent", "teacher-reflection-agent", "lesson-planner",
      "quiz-generator", "worksheet-generator", "homework-generator",
      "assignment-generator", "assessment-generator", "generate-message",
      "report-principal", "notification-manager", "co-teacher-coordination",
      "generate-exit-ticket", "generate-concept-visual", "generate-comic",
      "generate-debate-speech", "generate-creative-prompt", "graphic-agent",
      "poster-agent", "problem-card-generator", "compare-contrast-card",
      "cognitive-map", "smartnotes", "quick-poll", "summarygen", "tpsprompt",
      "flashcard-generator", "rhyme-generator", "podcast-generator",
      "pronunciation", "generate-guided-prompt", "do-it-cards",
      "drag-drop-builder", "scenario-card", "gallary-card",
      "chart-generator">>

\* self.tools
tools ==
    LET YOLEARN == "https://app.yolearn.ai/teacher/"
        Tool(url, name, description, keywords, use_cases, category) ==
            [url |-> url, name |-> name, description |-> description,
             keywords |-> keywords, use_cases |-> use_cases, category |-> category]
    IN
       "curriculum-plan-agent" :> Tool(YOLEARN \o "curriculum-plan-agent", "Curriculum Planning Agent",
         "Creates comprehensive curriculum plans and educational pathways for courses",
         <<"curriculum", "plan", "course", "syllabus", "educational pathway",
           "learning objectives">>,
         <<"course planning", "curriculum development", "educational structure",
           "learning progression">>,
         "Planning")
    @@ "classgoals-milestone-agent" :> Tool(YOLEARN \o "classgoals-milestone-agent", "Class Goals & Milestones Agent",
         "Sets learning goals and tracks educational milestones for students",
         <<"goals", "milestones", "objectives", "targets", "achievements",
           "progress">>,
         <<"goal setting", "milestone tracking", "progress monitoring",
           "achievement planning">>,
         "Assessment")
    @@ "teaching-agent" :> Tool(YOLEARN \o "teaching-agent", "Teaching Calendar Agent",
         "Creates and manages educational calendars, schedules, and time-based planning for teachers",
         <<"calendar", "schedule", "planning", "timeline", "events", "dates",
           "appointments", "time management">>,
         <<"calendar creation", "schedule planning", "event scheduling",
           "time management", "academic calendar", "class scheduling">>,
         "Planning")
    @@ "teacher-reflection-agent" :> Tool(YOLEARN \o "teacher-reflection-agent", "Teacher Reflection Agent",
         "Helps teachers reflect on their teaching practices and improve methodologies",
         <<"reflection", "self-assessment", "teaching improvement", "methodology",
           "practice review">>,
         <<"teaching reflection", "practice improvement", "self-evaluation",
           "professional development">>,
         "Professional Development")
    @@ "lesson-planner" :> Tool(YOLEARN \o "lesson-planner", "Lesson Planner",
         "Creates detailed lesson plans with activities, objectives, and timelines",
         <<"lesson", "plan", "activities", "objectives", "timeline", "structure">>,
         <<"lesson planning", "class preparation", "activity design",
           "educational structure">>,
         "Planning")
    @@ "quiz-generator" :> Tool(YOLEARN \o "quiz-generator", "Quiz Generator",
         "Generates quizzes and test questions for various subjects and difficulty levels",
         <<"quiz", "test", "questions", "assessment", "evaluation",
           "multiple choice">>,
         <<"quiz creation", "test preparation", "assessment design",
           "question generation">>,
         "Assessment")
    @@ "worksheet-generator" :> Tool(YOLEARN \o "worksheet-generator", "Worksheet Generator",
         "Creates educational worksheets and practice exercises for students",
         <<"worksheet", "exercises", "practice", "problems", "activities",
           "handouts">>,
         <<"worksheet creation", "practice exercises", "student activities",
           "skill building">>,
         "Content Creation")
    @@ "homework-generator" :> Tool(YOLEARN \o "homework-generator", "Homework Generator",
         "Generates homework assignments and take-home exercises",
         <<"homework", "assignment", "take-home", "practice", "reinforcement",
           "study">>,
         <<"homework creation", "assignment design", "practice reinforcement",
           "study materials">>,
         "Content Creation")
    @@ "assignment-generator" :> Tool(YOLEARN \o "assignment-generator", "Assignment Generator",
         "Creates various types of assignments and projects for students",
         <<"assignment", "project", "task", "work", "student work",
           "educational task">>,
         <<"assignment creation", "project design", "task development",
           "student work">>,
         "Content Creation")
    @@ "assessment-generator" :> Tool(YOLEARN \o "assessment-generator", "Assessment Generator",
         "Creates comprehensive assessments and evaluation tools",
         <<"assessment", "evaluation", "grading", "rubric", "measurement",
           "testing">>,
         <<"assessment creation", "evaluation design", "grading tools",
           "performance measurement">>,
         "Assessment")
    @@ "generate-message" :> Tool(YOLEARN \o "generate-message", "Message Generator",
         "Generates educational messages and communications for students and parents",
         <<"message", "communication", "announcement", "notification", "email",
           "parent">>,
         <<"parent communication", "student messages", "announcements",
           "educational communication">>,
         "Communication")
    @@ "report-principal" :> Tool(YOLEARN \o "report-principal", "Principal Report Generator",
         "Creates reports and summaries for school administrators and principals",
         <<"report", "principal", "administrator", "summary", "school",
           "administrative">>,
         <<"administrative reporting", "principal communication",
           "school reports", "administrative summaries">>,
         "Communication")
    @@ "notification-manager" :> Tool(YOLEARN \o "notification-manager", "Notification Manager",
         "Manages and creates various types of educational notifications",
         <<"notification", "alert", "reminder", "announcement", "communication",
           "inform">>,
         <<"notification creation", "alert management", "reminder systems",
           "information distribution">>,
         "Communication")
    @@ "co-teacher-coordination" :> Tool(YOLEARN \o "co-teacher-coordination", "Co-Teacher Coordination",
         "Facilitates coordination and collaboration between co-teachers",
         <<"co-teacher", "collaboration", "coordination", "teamwork",
           "partnership", "joint teaching">>,
         <<"teacher collaboration", "co-teaching coordination", "team teaching",
           "shared planning">>,
         "Communication")
    @@ "generate-exit-ticket" :> Tool(YOLEARN \o "generate-exit-ticket", "Exit Ticket Generator",
         "Creates exit tickets for quick lesson assessments and feedback",
         <<"exit ticket", "quick assessment", "lesson feedback", "closure",
           "review", "check">>,
         <<"lesson closure", "quick assessment", "student feedback",
           "understanding check">>,
         "Assessment")
    @@ "generate-concept-visual" :> Tool(YOLEARN \o "generate-concept-visual", "Concept Visual Generator",
         "Creates visual representations and diagrams for educational concepts",
         <<"visual", "diagram", "concept", "illustration", "graphic",
           "visual aid">>,
         <<"concept visualization", "educational diagrams", "visual learning",
           "graphic design">>,
         "Visual Content")
    @@ "generate-comic" :> Tool(YOLEARN \o "generate-comic", "Comic Generator",
         "Creates educational comics and story-based learning materials",
         <<"comic", "story", "narrative", "illustration", "entertainment",
           "visual story">>,
         <<"educational comics", "story-based learning", "visual narratives",
           "engaging content">>,
         "Visual Content")
    @@ "generate-debate-speech" :> Tool(YOLEARN \o "generate-debate-speech", "Debate Speech Generator",
         "Creates debate topics, arguments, and speech materials for students",
         <<"debate", "speech", "argument", "persuasion", "discussion", "rhetoric">>,
         <<"debate preparation", "speech writing", "argumentative skills",
           "discussion topics">>,
         "Content Creation")
    @@ "generate-creative-prompt" :> Tool(YOLEARN \o "generate-creative-prompt", "Creative Prompt Generator",
         "Generates creative writing prompts and imaginative activities",
         <<"creative", "prompt", "writing", "imagination", "creativity",
           "inspiration">>,
         <<"creative writing", "imaginative activities", "inspiration prompts",
           "artistic expression">>,
         "Content Creation")
    @@ "graphic-agent" :> Tool(YOLEARN \o "graphic-agent", "Graphic Design Agent",
         "Creates various graphics and visual elements for educational materials",
         <<"graphic", "design", "visual", "image", "illustration", "artwork">>,
         <<"graphic design", "visual materials", "educational graphics",
           "visual elements">>,
         "Visual Content")
    @@ "poster-agent" :> Tool(YOLEARN \o "poster-agent", "Poster Generator",
         "Creates educational posters and display materials for classrooms",
         <<"poster", "display", "classroom", "visual", "announcement",
           "decoration">>,
         <<"poster creation", "classroom displays", "educational posters",
           "visual announcements">>,
         "Visual Content")
    @@ "problem-card-generator" :> Tool(YOLEARN \o "problem-card-generator", "Problem Card Generator",
         "Creates problem-solving cards and challenge activities for students",
         <<"problem", "card", "challenge", "solve", "critical thinking", "puzzle">>,
         <<"problem solving", "critical thinking", "challenge activities",
           "educational puzzles">>,
         "Content Creation")
    @@ "compare-contrast-card" :> Tool(YOLEARN \o "compare-contrast-card", "Compare & Contrast Card Generator",
         "Creates cards for comparing and contrasting different concepts or ideas",
         <<"compare", "contrast", "comparison", "difference", "similarity",
           "analyze">>,
         <<"comparative analysis", "concept comparison", "critical thinking",
           "analytical skills">>,
         "Content Creation")
    @@ "cognitive-map" :> Tool(YOLEARN \o "cognitive-map", "Cognitive Map Generator",
         "Creates cognitive maps and mind maps for organizing information",
         <<"cognitive map", "mind map", "organization", "structure",
           "concept mapping", "visual thinking">>,
         <<"information organization", "concept mapping", "visual thinking",
           "knowledge structure">>,
         "Visual Content")
    @@ "smartnotes" :> Tool(YOLEARN \o "smartnotes", "Smart Notes Generator",
         "Creates intelligent notes and study materials for students",
         <<"notes", "study", "summary", "review", "learning materials",
           "condensed">>,
         <<"note taking", "study materials", "content summarization",
           "learning aids">>,
         "Content Creation")
    @@ "quick-poll" :> Tool(YOLEARN \o "quick-poll", "Quick Poll Generator",
         "Creates quick polls and surveys for classroom engagement",
         <<"poll", "survey", "vote", "opinion", "feedback", "engagement">>,
         <<"classroom polls", "student feedback", "engagement activities",
           "opinion gathering">>,
         "Assessment")
    @@ "summarygen" :> Tool(YOLEARN \o "summarygen", "Summary Generator",
         "Creates summaries and condensed versions of educational content",
         <<"summary", "condensed", "overview", "key points", "main ideas",
           "digest">>,
         <<"content summarization", "key point extraction", "overview creation",
           "information condensing">>,
         "Content Creation")
    @@ "tpsprompt" :> Tool(YOLEARN \o "tpsprompt", "TPS Prompt Generator",
         "Creates Think-Pair-Share prompts and collaborative learning activities",
         <<"think pair share", "TPS", "collaboration", "discussion", "group work",
           "peer learning">>,
         <<"collaborative learning", "peer discussion", "group activities",
           "interactive learning">>,
         "Content Creation")
    @@ "flashcard-generator" :> Tool(YOLEARN \o "flashcard-generator", "Flashcard Generator",
         "Creates flashcards for memorization and quick review",
         <<"flashcard", "memorization", "review", "study", "recall", "practice">>,
         <<"memorization aids", "study tools", "quick review",
           "knowledge retention">>,
         "Content Creation")
    @@ "rhyme-generator" :> Tool(YOLEARN \o "rhyme-generator", "Rhyme Generator",
         "Creates rhymes and poetry for educational and memory purposes",
         <<"rhyme", "poetry", "verse", "memory", "song", "musical">>,
         <<"educational rhymes", "memory aids", "poetry creation",
           "musical learning">>,
         "Content Creation")
    @@ "podcast-generator" :> Tool(YOLEARN \o "podcast-generator", "Podcast Generator",
         "Creates educational podcast scripts and audio content ideas",
         <<"podcast", "audio", "script", "educational content", "listening",
           "media">>,
         <<"podcast creation", "audio content", "educational media",
           "listening activities">>,
         "Content Creation")
    @@ "pronunciation" :> Tool(YOLEARN \o "pronunciation", "Pronunciation Guide",
         "Provides pronunciation guidance and phonetic assistance",
         <<"pronunciation", "phonetic", "speech", "language", "accent", "sound">>,
         <<"pronunciation practice", "language learning", "speech improvement",
           "phonetic guidance">>,
         "Language Learning")
    @@ "generate-guided-prompt" :> Tool(YOLEARN \o "generate-guided-prompt", "Guided Prompt Generator",
         "Creates guided prompts and structured activities for student learning",
         <<"guided", "prompt", "structured", "step-by-step", "scaffolding",
           "support">>,
         <<"guided learning", "structured activities", "scaffolded instruction",
           "step-by-step guidance">>,
         "Content Creation")
    @@ "do-it-cards" :> Tool(YOLEARN \o "do-it-cards", "Do-It Cards Generator",
         "Creates action-oriented cards with tasks and activities for students",
         <<"action", "task", "activity", "do it", "hands-on", "practical">>,
         <<"hands-on activities", "practical tasks", "action-oriented learning",
           "activity cards">>,
         "Content Creation")
    @@ "drag-drop-builder" :> Tool(YOLEARN \o "drag-drop-builder", "Drag & Drop Builder",
         "Creates interactive drag and drop activities and exercises",
         <<"drag drop", "interactive", "matching", "sorting", "categorization",
           "activity">>,
         <<"interactive activities", "matching exercises", "sorting tasks",
           "categorization activities">>,
         "Interactive Content")
    @@ "scenario-card" :> Tool(YOLEARN \o "scenario-card", "Scenario Card Generator",
         "Creates scenario-based learning cards and situation analysis activities",
         <<"scenario", "situation", "case study", "analysis", "problem solving",
           "context">>,
         <<"scenario-based learning", "case studies", "situational analysis",
           "contextual learning">>,
         "Content Creation")
    @@ "gallary-card" :> Tool(YOLEARN \o "gallary-card", "Gallery Card Generator",
         "Creates gallery-style cards with images and descriptions for visual learning",
         <<"gallery", "visual", "image", "card", "collection", "display">>,
         <<"visual learning", "image galleries", "visual collections",
           "descriptive cards">>,
         "Visual Content")
    @@ "chart-generator" :> Tool(YOLEARN \o "chart-generator", "Chart Generator",
         "Creates various types of charts and graphs for data visualization",
         <<"chart", "graph", "data", "visualization", "statistics", "analysis">>,
         <<"data visualization", "chart creation", "statistical analysis",
           "graphical representation">>,
         "Visual Content")

\* every catalog record
AllTools == {tools[k] : k \in DOMAIN tools}

\* get_tool_by_key(key): self.tools.get(key)
get_tool_by_key(key) == IF key \in DOMAIN tools THEN tools[key] ELSE None

\* a lookup that answers the whole catalog for a category it does not hold
ToolsByCategoryOrAll(category) ==
    LET keys == SelectSeq(tool_keys,
                          LAMBDA k : \/ tools[k].category = category
                                     \/ \A j \in DOMAIN tools : tools[j].category # category)
    IN  [i \in 1..Len(keys) |-> tools[keys[i]]]

\* get_tools_by_category(category): the records of that category, catalog order
get_tools_by_category(category) ==
    LET keys == SelectSeq(tool_keys, LAMBDA k : tools[k].category = category)
    IN  [i \in 1..Len(keys) |-> tools[keys[i]]]

\* the category names of the catalog
Categories == {tools[k].category : k \in DOMAIN tools}

(***************************************************************************)
(* IntentClassifier (services/intent_classifier.py): tool matcher          *)
(***************************************************************************)

\* intent_keywords of the fallback analysis, one list per keyword group
FallbackIntentKeywords ==
    {<<"planning", "organization", "preparation">>,
     <<"assessment", "evaluation", "grading">>,
     <<"creation", "materials", "resources">>,
     <<"visual", "graphics", "design">>,
     <<"communication", "messaging", "outreach">>,
     <<"interactive", "engagement", "activities">>}

\* intent_keywords lists an analysis of the language model may carry
ModelIntentKeywords ==
    {<<>>, <<"planning">>, <<"Planning">>, <<"zzz">>, <<"quiz">>, <<"Quiz">>,
     <<"zzz", "plan">>}

\* ' '.join(tool_keywords).lower() of every catalog record
joined_keywords == [t \in AllTools |-> Lower(Join(t.keywords, " "))]

\* intent_keyword in ' '.join(tool_keywords).lower(), for the keywords of the model
keyword_in_tool ==
    LET IntentKeywords == UNION {Range(l) : l \in FallbackIntentKeywords \cup ModelIntentKeywords}
    IN
    [k \in IntentKeywords |-> [t \in AllTools |-> Contains(joined_keywords[t], k)]]

\* the matching rule with every tool taken as a keyword match
KeywordsMatchAny(intent_keywords, tool) == intent_keywords # <<>>

\* line 291: any intent keyword is a substring of the tool's joined keywords
KeywordsMatch(intent_keywords, tool) ==
    \E i \in 1..Len(intent_keywords) : keyword_in_tool[intent_keywords[i]][tool]

\* lines 275-279: the mentioned keys that are in the catalog, appended in order
RECURSIVE SpecificTools(_, _)
SpecificTools(specific_tools, primary_tools) ==
    IF specific_tools = <<>> THEN primary_tools
    ELSE LET key == Head(specific_tools)
         IN  SpecificTools(Tail(specific_tools),
                           IF key \in DOMAIN tools
                           THEN Append(primary_tools, get_tool_by_key(key))
                           ELSE primary_tools)

\* lines 285-294: one category's tools; a tool not yet in primary goes to primary
\* on a keyword match and to secondary otherwise. lists is <<primary, secondary>>.
\* The records of one category are distinct, so the test on line 286 gives for
\* each of them what it gives against the primary list at the start of the loop.
MatchCategoryTools(category_tools, intent_keywords, lists) ==
    LET fresh == SelectSeq(category_tools, LAMBDA tool : ~InList(tool, lists[1]))
    IN  <<lists[1] \o SelectSeq(fresh, LAMBDA tool : KeywordsMatch(intent_keywords, tool)),
          lists[2] \o SelectSeq(fresh, LAMBDA tool : ~KeywordsMatch(intent_keywords, tool))>>

\* lines 283-294: the primary categories in order
RECURSIVE MatchPrimaryCategories(_, _, _)
MatchPrimaryCategories(primary_categories, intent_keywords, lists) ==
    IF primary_categories = <<>> THEN lists
    ELSE MatchPrimaryCategories(
             Tail(primary_categories), intent_keywords,
             MatchCategoryTools(get_tools_by_category(Head(primary_categories)),
                                intent_keywords, lists))

\* lines 300-302: one secondary category's tools, skipping those already in
\* either list (the records of one category are distinct)
AddSecondaryTools(category_tools, lists) ==
    <<lists[1],
      lists[2] \o SelectSeq(category_tools,
                            LAMBDA tool : ~InList(tool, lists[1]) /\ ~InList(tool, lists[2]))>>

\* lines 297-302: the secondary categories in order
RECURSIVE MatchSecondaryCategories(_, _)
MatchSecondaryCategories(secondary_categories, lists) ==
    IF secondary_categories = <<>> THEN lists
    ELSE MatchSecondaryCategories(
             Tail(secondary_categories),
             AddSecondaryTools(get_tools_by_category(Head(secondary_categories)), lists))

MAX_PROMOTED == 2
MAX_PRIMARY == 3
MAX_SECONDARY == 3

\* list[n:]
DropN(list, n) == IF Len(list) <= n THEN <<>> ELSE SubSeq(list, n + 1, Len(list))

\* the lists left as collected, without promotion
PromoteNever(lists) == lists

\* the promotion moving one entry only
PromoteOne(lists) ==
    IF lists[1] = <<>> /\ lists[2] # <<>>
    THEN <<FirstN(lists[2], 1), DropN(lists[2], 1)>>
    ELSE lists

\* lines 305-307: with no primary tool the first two secondary tools are promoted
Promote(lists) ==
    IF lists[1] = <<>> /\ lists[2] # <<>>
    THEN <<FirstN(lists[2], MAX_PROMOTED), DropN(lists[2], MAX_PROMOTED)>>
    ELSE lists

\* the two lists returned as they are
LimitNone(lists) == lists

\* lines 310-311: both lists cut to three
Limit(lists) == <<FirstN(lists[1], MAX_PRIMARY), FirstN(lists[2], MAX_SECONDARY)>>

\* lines 275-302: <<primary_tools, secondary_tools>> after the specific-tool,
\* primary-category and secondary-category steps
CollectedLists(semantic_analysis) ==
    LET specific ==
            SpecificTools(Get(semantic_analysis, "specific_tools_mentioned", <<>>), <<>>)
        primary ==
            MatchPrimaryCategories(Get(semantic_analysis, "primary_categories", <<>>),
                                   Get(semantic_analysis, "intent_keywords", <<>>),
                                   <<specific, <<>>>>)
        secondary ==
            MatchSecondaryCategories(Get(semantic_analysis, "secondary_categories", <<>>),
                                     primary)
    IN  secondary

\* _find_matching_tools(semantic_analysis, query): <<primary_tools, secondary_tools>>
_find_matching_tools(semantic_analysis) ==
    Limit(Promote(CollectedLists(semantic_analysis)))

(***************************************************************************)
(* The matcher on its own: one call on each analysis of MatcherAnalyses    *)
(***************************************************************************)

\* the analyses handed to _find_matching_tools: known and unknown tool keys, one
\* key twice, categories single, repeated, mixed and unknown
MatcherAnalyses ==
    [specific_tools_mentioned :
         {<<>>, <<"lesson-planner">>, <<"no-such-tool">>,
          <<"quiz-generator", "quiz-generator">>},
     primary_categories :
         {<<>>, <<"Planning">>, <<"Planning", "Planning">>, <<"Assessment">>,
          <<"Interactive Content", "Content Creation">>, <<"No Such Category">>},
     secondary_categories :
         {<<>>, <<"Planning">>, <<"Assessment", "Planning">>, <<"No Such Category">>},
     intent_keywords :
         ModelIntentKeywords \cup {<<"planning", "organization", "preparation">>,
                                   <<"interactive", "engagement", "activities">>}]

\* one call _find_matching_tools(args, query)
FindMatchingTools ==
    /\ last.op = "init"
    /\ last' = [op |-> "_find_matching_tools", semantic_analysis |-> args,
                collected |-> CollectedLists(args),
                promoted |-> Promote(CollectedLists(args)),
                returned |-> _find_matching_tools(args)]
    /\ UNCHANGED <<memVars, analyticsVars, args, calls>>

SpecMatcher == InitPure(MatcherAnalyses) /\ [][FindMatchingTools]_vars

\* C6: for every analysis, with repeated categories too, the primary and the
\* secondary list returned by the matcher have no tool in common.
C6_PrimarySecondaryDisjoint ==
    last.op = "_find_matching_tools" =>
        Range(last.returned[1]) \cap Range(last.returned[2]) = {}

\* the analysis of C8: Planning, keyword "planning", nothing else
PlanningAnalysis ==
    [specific_tools_mentioned |-> <<>>, primary_categories |-> <<"Planning">>,
     secondary_categories |-> <<>>, intent_keywords |-> <<"planning">>]

\* C8 as stated: on the Planning analysis the three Planning tools
\* curriculum-plan-agent, teaching-agent and lesson-planner are all in primary,
\* and primary has at most three entries.
C8_AllPlanningToolsPrimary ==
    (last.op = "_find_matching_tools" /\ last.semantic_analysis = PlanningAnalysis) =>
        /\ {tools["curriculum-plan-agent"], tools["teaching-agent"],
            tools["lesson-planner"]} \subseteq Range(last.returned[1])
        /\ Len(last.returned[1]) <= MAX_PRIMARY

\* C8 amended: on the Planning analysis only teaching-agent, the one Planning tool
\* whose joined keywords contain "planning", is in primary; curriculum-plan-agent
\* and lesson-planner (keyword "plan") are the secondary list, in catalog order.
C8_OnlyTeachingAgentPrimary ==
    (last.op = "_find_matching_tools" /\ last.semantic_analysis = PlanningAnalysis) =>
        /\ last.returned[1] = <<tools["teaching-agent"]>>
        /\ last.returned[2] = <<tools["curriculum-plan-agent"], tools["lesson-planner"]>>

C8_Witness ==
    /\ last.op = "_find_matching_tools"
    /\ last.semantic_analysis = PlanningAnalysis
    /\ InList(tools["teaching-agent"], last.returned[1])
    /\ Len(get_tools_by_category("Planning")) = MAX_PRIMARY

\* list[:Len(prefix)] = prefix
IsPrefix(prefix, list) ==
    /\ Len(prefix) <= Len(list)
    /\ prefix = SubSeq(list, 1, Len(prefix))

\* C14: the matcher returns at most 3 primary and at most 3 secondary tools, and
\* each returned list is a prefix of the list the earlier steps built.
C14_AtMostThreeEach ==
    last.op = "_find_matching_tools" =>
        /\ Len(last.returned[1]) <= MAX_PRIMARY
        /\ Len(last.returned[2]) <= MAX_SECONDARY
        /\ IsPrefix(last.returned[1], last.promoted[1])
        /\ IsPrefix(last.returned[2], last.promoted[2])

C14_Witness ==
    /\ last.op = "_find_matching_tools"
    /\ Len(last.promoted[1]) > MAX_PRIMARY
    /\ Len(last.promoted[2]) > MAX_SECONDARY
    /\ Len(last.returned[1]) = MAX_PRIMARY
    /\ Len(last.returned[2]) = MAX_SECONDARY

\* the keys and categories an analysis names are all absent from the catalog
NamesNothingKnown(semantic_analysis) ==
    /\ \A key \in Range(semantic_analysis.specific_tools_mentioned) :
           key \notin DOMAIN tools
    /\ \A category \in Range(semantic_analysis.primary_categories)
                         \cup Range(semantic_analysis.secondary_categories) :
           category \notin Categories

\* C15: when specific_tools_mentioned, primary_categories and
\* secondary_categories are empty or name only keys and categories absent from
\* the catalog, the matcher returns ([], []) whatever the intent keywords are.
C15_NothingKnownNothingMatched ==
    (last.op = "_find_matching_tools" /\ NamesNothingKnown(last.semantic_analysis)) =>
        last.returned = <<<<>>, <<>>>>

C15_Witness ==
    /\ last.op = "_find_matching_tools"
    /\ last.semantic_analysis.specific_tools_mentioned = <<"no-such-tool">>
    /\ last.semantic_analysis.primary_categories = <<"No Such Category">>
    /\ last.semantic_analysis.secondary_categories = <<"No Such Category">>
    /\ last.semantic_analysis.intent_keywords = <<"planning">>
    /\ last.returned = <<<<>>, <<>>>>

\* C19: when the earlier steps leave primary empty and secondary non-empty,
\* the matcher returns the first two secondary entries as primary and the
\* following ones, up to three, as secondary; when primary is non-empty no
\* secondary entry is moved.
C19_PromotionRule ==
    last.op = "_find_matching_tools" =>
        LET primary_tools == last.collected[1]
            secondary_tools == last.collected[2]
        IN  IF primary_tools = <<>> /\ secondary_tools # <<>>
            THEN /\ last.returned[1] = FirstN(secondary_tools, MAX_PROMOTED)
                 /\ last.returned[2] =
                        FirstN(DropN(secondary_tools, MAX_PROMOTED), MAX_SECONDARY)
            ELSE /\ last.returned[1] = FirstN(primary_tools, MAX_PRIMARY)
                 /\ last.returned[2] = FirstN(secondary_tools, MAX_SECONDARY)

C19_Witness ==
    /\ last.op = "_find_matching_tools"
    /\ last.collected[1] = <<>>
    /\ Len(last.collected[2]) > MAX_PROMOTED + MAX_SECONDARY
    /\ Len(last.returned[1]) = MAX_PROMOTED
    /\ Len(last.returned[2]) = MAX_SECONDARY

\* C20: in the primary-category step a tool goes to primary if and only if
\* some intent keyword is a case-insensitive substring of the tool's
\* space-joined keywords (stated for the first primary category of an analysis
\* that mentions no specific tool, where no tool is in primary beforehand).
C20_CaseInsensitiveKeywordMatch ==
    (/\ last.op = "_find_matching_tools"
     /\ last.semantic_analysis.specific_tools_mentioned = <<>>
     /\ last.semantic_analysis.primary_categories # <<>>) =>
        \A tool \in Range(get_tools_by_category(
                              Head(last.semantic_analysis.primary_categories))) :
            InList(tool, last.collected[1]) <=>
                \E i \in 1..Len(last.semantic_analysis.intent_keywords) :
                    Contains(joined_keywords[tool],
                             Lower(last.semantic_analysis.intent_keywords[i]))

(***************************************************************************)
(* IntentClassifier: confidence score, in hundredths                       *)
(***************************************************************************)

DEFAULT_CONFIDENCE == 50
SINGLE_MATCH_BOOST == 20
FEW_MATCHES_BOOST == 10
FEW_MATCHES == 3
NO_PRIMARY_PENALTY == 30
ALTERNATIVES_BOOST == 5
MIN_SCORE == 0
MAX_SCORE == 100

\* semantic_analysis.get('confidence_level', 0.5)
BaseConfidence(semantic_analysis) ==
    IF "confidence_level" \in DOMAIN semantic_analysis
    THEN semantic_analysis.confidence_level
    ELSE DEFAULT_CONFIDENCE

\* lines 320-329: the base confidence after the two adjustments
AdjustedConfidence(semantic_analysis, primary_tools, secondary_tools) ==
    LET base == BaseConfidence(semantic_analysis)
        after_primary ==
            IF primary_tools # <<>>
            THEN IF Len(primary_tools) = 1 THEN base + SINGLE_MATCH_BOOST
                 ELSE IF Len(primary_tools) <= FEW_MATCHES THEN base + FEW_MATCHES_BOOST
                 ELSE base
            ELSE base - NO_PRIMARY_PENALTY
    IN  IF secondary_tools # <<>> THEN after_primary + ALTERNATIVES_BOOST
        ELSE after_primary

\* the score without line 332
ConfidenceNoClamp(semantic_analysis, primary_tools, secondary_tools) ==
    AdjustedConfidence(semantic_analysis, primary_tools, secondary_tools)

\* _calculate_confidence(semantic_analysis, primary_tools, secondary_tools)
_calculate_confidence(semantic_analysis, primary_tools, secondary_tools) ==
    LET Min(a, b) == IF a <= b THEN a ELSE b
        Max(a, b) == IF a >= b THEN a ELSE b
    IN
    Max(MIN_SCORE,
        Min(MAX_SCORE,
            AdjustedConfidence(semantic_analysis, primary_tools, secondary_tools)))

(***************************************************************************)
(* The scorer on its own: one call on each input of ConfidenceInputs       *)
(***************************************************************************)

\* confidence_level values, in hundredths, from -MaxBelowZero to
\* MaxConfidenceLevel: -1.0 to 1.5
MaxBelowZero == 100
MaxConfidenceLevel == 150

ConfidenceInputs ==
    LET \* tool lists of every length from 0 to 4
        ToolLists ==
            {SubSeq(get_tools_by_category("Assessment"), 1, n) : n \in 0..(MAX_PRIMARY + 1)}
        \* analyses with a confidence_level, and one without
        ConfidenceAnalyses ==
            LET MinConfidenceLevel == -MaxBelowZero
            IN
            {[query_type |-> "UNCLEAR", confidence_level |-> level] :
                 level \in MinConfidenceLevel..MaxConfidenceLevel}
            \cup {[query_type |-> "UNCLEAR"]}
    IN
    [semantic_analysis : ConfidenceAnalyses,
     primary_tools : ToolLists,
     secondary_tools : {l \in ToolLists : Len(l) <= 1}]

\* one call _calculate_confidence(args...)
CalculateConfidence ==
    /\ last.op = "init"
    /\ last' = [op |-> "_calculate_confidence",
                semantic_analysis |-> args.semantic_analysis,
                primary_tools |-> args.primary_tools,
                secondary_tools |-> args.secondary_tools,
                returned |-> _calculate_confidence(args.semantic_analysis,
                                                   args.primary_tools,
                                                   args.secondary_tools)]
    /\ UNCHANGED <<memVars, analyticsVars, args, calls>>

SpecConfidence == InitPure(ConfidenceInputs) /\ [][CalculateConfidence]_vars

\* C9: the score is clamp(confidence_level + a + b, 0, 1) with a = +0.2 for one
\* primary tool, +0.1 for two or three, -0.3 for none, and b = +0.05 with a
\* secondary tool and 0 without; for every confidence_level, also outside [0,1],
\* the score is never above 1.0 and never below 0.0 (hundredths here).
C9_ConfidenceClamped ==
    last.op = "_calculate_confidence" =>
        /\ last.returned >= 0
        /\ last.returned <= 100
        /\ ("confidence_level" \in DOMAIN last.semantic_analysis
            /\ Len(last.primary_tools) <= 3) =>
              LET n == Len(last.primary_tools)
                  a == IF n = 1 THEN 20 ELSE IF n \in {2, 3} THEN 10 ELSE -30
                  b == IF Len(last.secondary_tools) > 0 THEN 5 ELSE 0
                  sum == last.semantic_analysis.confidence_level + a + b
              IN  last.returned = IF sum < 0 THEN 0 ELSE IF sum > 100 THEN 100 ELSE sum

C9_Witness ==
    /\ last.op = "_calculate_confidence"
    /\ "confidence_level" \in DOMAIN last.semantic_analysis
    /\ last.semantic_analysis.confidence_level = 150
    /\ Len(last.primary_tools) = 1
    /\ last.secondary_tools # <<>>
    /\ last.returned = 100

(***************************************************************************)
(* IntentClassifier: query preprocessing and the fallback analysis         *)
(***************************************************************************)

\* c matches [\w\s\-\?\!\.]
IsKeptChar(c) ==
    LET DIGITS == "0123456789"
    IN
    \/ \E i \in 1..Len(LOWER) : SubSeq(LOWER, i, i) = c
    \/ \E i \in 1..Len(UPPER) : SubSeq(UPPER, i, i) = c
    \/ \E i \in 1..Len(DIGITS) : SubSeq(DIGITS, i, i) = c
    \/ c = "_"
    \/ IsSpace(c)
    \/ c \in {"-", "?", "!", "."}

\* re.sub(r'[^\w\s\-\?\!\.]', '', s)
RECURSIVE RemoveSpecial(_)
RemoveSpecial(s) ==
    IF s = "" THEN ""
    ELSE IF Len(s) = 1 THEN (IF IsKeptChar(s) THEN s ELSE "")
    ELSE LET half == Len(s) \div 2
         IN  RemoveSpecial(SubSeq(s, 1, half)) \o RemoveSpecial(SubSeq(s, half + 1, Len(s)))

\* s.replace(old, new) for single characters
RECURSIVE ReplaceChar(_, _, _)
ReplaceChar(s, old, new) ==
    IF s = "" THEN ""
    ELSE IF Len(s) = 1 THEN (IF s = old THEN new ELSE s)
    ELSE LET half == Len(s) \div 2
         IN  ReplaceChar(SubSeq(s, 1, half), old, new)
             \o ReplaceChar(SubSeq(s, half + 1, Len(s)), old, new)

\* _preprocess_query(query): whitespace runs to one space, lower case, special
\* characters removed
_preprocess_query(query) == RemoveSpecial(Lower(Join(Split(query), " ")))

cleaned_query == [q \in Queries |-> _preprocess_query(q)]

CleanedQueries == {cleaned_query[q] : q \in Queries}

(***************************************************************************)
(* The preprocessor on its own: one call on each short string over a small *)
(* alphabet of letters, whitespace and a special character                 *)
(***************************************************************************)

\* the longest query given to the preprocessor
MaxQueryLen == 5

\* the strings over PreprocessAlphabet of at most n characters
RECURSIVE Strings(_)
Strings(n) ==
    LET \* a lower-case and an upper-case letter, two whitespace characters and a
        \* character the pattern removes
        PreprocessAlphabet == {"a", "B", " ", "\t", "&"}
    IN
    IF n = 0 THEN {""}
    ELSE Strings(n - 1) \cup {s \o c : s \in Strings(n - 1), c \in PreprocessAlphabet}

\* one call _preprocess_query(args)
PreprocessQuery ==
    /\ last.op = "init"
    /\ last' = [op |-> "_preprocess_query", query |-> args,
                returned |-> _preprocess_query(args)]
    /\ UNCHANGED <<memVars, analyticsVars, args, calls>>

SpecPreprocess == InitPure(Strings(MaxQueryLen)) /\ [][PreprocessQuery]_vars

\* C17: the preprocessor's output has no two adjacent whitespace characters and
\* no leading or trailing whitespace, is lower-case and holds only word
\* characters, whitespace, hyphen, '?', '!' and '.'; preprocessing it again
\* returns it unchanged.
C17_PreprocessNormalForm ==
    last.op = "_preprocess_query" =>
        LET out == last.returned IN
        /\ \A i \in 1..(Len(out) - 1) :
               ~(IsSpace(SubSeq(out, i, i)) /\ IsSpace(SubSeq(out, i + 1, i + 1)))
        /\ out = Strip(out)
        /\ out = Lower(out)
        /\ \A i \in 1..Len(out) : IsKeptChar(SubSeq(out, i, i))
        /\ _preprocess_query(out) = out

FALLBACK_CONFIDENCE == 70

\* lines 184-239: the keyword groups in the order of the if/elif chain
keyword_groups ==
    <<[keywords |-> <<"plan", "curriculum", "lesson", "schedule", "organize",
                      "calendar", "timeline", "structure", "prepare">>,
       query_type |-> "GENERAL_PLANNING",
       primary_categories |-> <<"Planning">>,
       intent_keywords |-> <<"planning", "organization", "preparation">>,
       educational_context |->
           "You're looking to get organized and plan your teaching more effectively",
       human_insight |->
           "Planning is key to great teaching! Let's find tools that'll make this easier for you.",
       implied_needs |-> <<"time management", "organization tools", "structure">>],
      [keywords |-> <<"quiz", "test", "assessment", "evaluate", "grade", "measure",
                      "check", "exam", "review", "feedback">>,
       query_type |-> "ASSESSMENT",
       primary_categories |-> <<"Assessment">>,
       intent_keywords |-> <<"assessment", "evaluation", "grading">>,
       educational_context |->
           "You need ways to assess and track your students' progress",
       human_insight |->
           "Assessment helps you understand how your students are doing. I'll help you find the right tools.",
       implied_needs |-> <<"grading efficiency", "progress tracking", "feedback tools">>],
      [keywords |-> <<"create", "generate", "make", "build", "develop", "design",
                      "produce", "write", "worksheet", "assignment">>,
       query_type |-> "CONTENT_CREATION",
       primary_categories |-> <<"Content Creation">>,
       intent_keywords |-> <<"creation", "materials", "resources">>,
       educational_context |->
           "You want to create engaging materials for your students",
       human_insight |->
           "Creating great content takes time, but the right tools can make it much faster and easier.",
       implied_needs |-> <<"templates", "design resources", "time-saving tools">>],
      [keywords |-> <<"visual", "graphic", "chart", "poster", "image", "diagram",
                      "illustration", "picture", "display">>,
       query_type |-> "VISUAL_CONTENT",
       primary_categories |-> <<"Visual Content">>,
       intent_keywords |-> <<"visual", "graphics", "design">>,
       educational_context |->
           "You're looking to create visual materials that'll help your students learn better",
       human_insight |->
           "Visual content really helps students understand concepts! Great thinking.",
       implied_needs |-> <<"design templates", "visual resources", "easy-to-use tools">>],
      [keywords |-> <<"message", "email", "report", "communicate", "send", "notify",
                      "inform", "parent", "contact">>,
       query_type |-> "COMMUNICATION",
       primary_categories |-> <<"Communication">>,
       intent_keywords |-> <<"communication", "messaging", "outreach">>,
       educational_context |->
           "You need to communicate effectively with students, parents, or colleagues",
       human_insight |->
           "Good communication makes everything run smoother. Let's find tools that help.",
       implied_needs |->
           <<"message templates", "communication efficiency", "professional tools">>],
      [keywords |-> <<"interactive", "activity", "game", "engagement", "hands-on",
                      "drag", "drop", "fun", "engaging">>,
       query_type |-> "CONTENT_CREATION",
       primary_categories |-> <<"Interactive Content", "Content Creation">>,
       intent_keywords |-> <<"interactive", "engagement", "activities">>,
       educational_context |->
           "You want to create interactive experiences that keep students engaged",
       human_insight |->
           "Interactive content is fantastic for keeping students engaged! You're on the right track.",
       implied_needs |->
           <<"activity templates", "engagement tools", "interactive resources">>]>>

\* lines 176-181: the values when no keyword group matches
no_group ==
    [query_type |-> "UNCLEAR",
     primary_categories |-> <<>>,
     intent_keywords |-> <<>>,
     educational_context |-> "General teaching support needed",
     human_insight |-> "Let me help you find the right tool for your teaching needs.",
     implied_needs |-> <<>>]

\* the if/elif chain with the last matching group winning
MatchedGroupLast(query_lower) ==
    IF \E i \in 1..Len(keyword_groups) : AnyIn(keyword_groups[i].keywords, query_lower)
    THEN keyword_groups[CHOOSE i \in 1..Len(keyword_groups) :
                            /\ AnyIn(keyword_groups[i].keywords, query_lower)
                            /\ \A j \in (i + 1)..Len(keyword_groups) :
                                   ~AnyIn(keyword_groups[j].keywords, query_lower)]
    ELSE no_group

\* lines 193-239: the first group with a keyword in the query, else no_group
MatchedGroup(query_lower) ==
    IF \E i \in 1..Len(keyword_groups) : AnyIn(keyword_groups[i].keywords, query_lower)
    THEN keyword_groups[CHOOSE i \in 1..Len(keyword_groups) :
                            /\ AnyIn(keyword_groups[i].keywords, query_lower)
                            /\ \A j \in 1..(i - 1) :
                                   ~AnyIn(keyword_groups[j].keywords, query_lower)]
    ELSE no_group

\* lines 242-250: the two overrides for teaching challenges
boredom_words == <<"boring", "bored", "not engaged", "disengaged", "uninterested">>

overwhelm_words == <<"overwhelmed", "stressed", "too much", "no time">>

boredom_override ==
    [educational_context |->
         "You're dealing with student engagement challenges - that's tough but very common",
     human_insight |->
         "Student engagement is one of the biggest challenges teachers face. You're not alone in this!",
     implied_needs |->
         <<"engagement strategies", "interactive tools", "motivational resources">>]

overwhelm_override ==
    [educational_context |-> "You're feeling overwhelmed with your teaching workload",
     human_insight |->
         "Teaching can be overwhelming, but the right tools can really help lighten the load.",
     implied_needs |->
         <<"time-saving tools", "efficiency solutions", "organization help">>]

\* the analysis with the overload check ahead of the boredom check
FallbackAnalysisOverloadFirst(query) ==
    LET query_lower == Lower(query)
        group == MatchedGroup(query_lower)
        override == IF AnyIn(overwhelm_words, query_lower) THEN overwhelm_override
                    ELSE IF AnyIn(boredom_words, query_lower) THEN boredom_override
                    ELSE group
    IN  [query_type |-> group.query_type,
         intent_keywords |-> group.intent_keywords,
         primary_categories |-> group.primary_categories,
         secondary_categories |-> <<>>,
         confidence_level |-> FALLBACK_CONFIDENCE,
         reasoning |->
             "I understand you're looking for help with "
             \o ReplaceChar(Lower(group.query_type), "_", " ")
             \o ". While I'd love to provide more detailed analysis, I can still help you find the right tools.",
         specific_tools_mentioned |-> <<>>,
         educational_context |-> override.educational_context,
         suggested_tool_types |-> group.primary_categories,
         human_insight |-> override.human_insight,
         implied_needs |-> override.implied_needs]

\* _fallback_analysis(query)
_fallback_analysis(query) ==
    LET query_lower == Lower(query)
        group == MatchedGroup(query_lower)
        override == IF AnyIn(boredom_words, query_lower) THEN boredom_override
                    ELSE IF AnyIn(overwhelm_words, query_lower) THEN overwhelm_override
                    ELSE group
    IN  [query_type |-> group.query_type,
         intent_keywords |-> group.intent_keywords,
         primary_categories |-> group.primary_categories,
         secondary_categories |-> <<>>,
         confidence_level |-> FALLBACK_CONFIDENCE,
         reasoning |->
             "I understand you're looking for help with "
             \o ReplaceChar(Lower(group.query_type), "_", " ")
             \o ". While I'd love to provide more detailed analysis, I can still help you find the right tools.",
         specific_tools_mentioned |-> <<>>,
         educational_context |-> override.educational_context,
         suggested_tool_types |-> group.primary_categories,
         human_insight |-> override.human_insight,
         implied_needs |-> override.implied_needs]

fallback_analysis == [q \in CleanedQueries |-> _fallback_analysis(q)]

(***************************************************************************)
(* The fallback analyzer on its own: one call on each query made of a few  *)
(* words                                                                   *)
(***************************************************************************)

MaxWords == 3

FallbackQueries ==
    LET \* words of the queries: one keyword of each group, a boredom and an overload
        \* word, a word that holds a keyword inside it, a keyword in upper case and a
        \* word of no group
        FallbackWords ==
            {"plan", "quiz", "create", "poster", "email", "game", "bored", "stressed",
             "planet", "QUIZ", "hello"}
    IN
    {Join(words, " ") : words \in UNION {[1..k -> FallbackWords] : k \in 0..MaxWords}}

\* one call _fallback_analysis(args)
FallbackAnalysis ==
    /\ last.op = "init"
    /\ last' = [op |-> "_fallback_analysis", query |-> args,
                returned |-> _fallback_analysis(args)]
    /\ UNCHANGED <<memVars, analyticsVars, args, calls>>

SpecFallback == InitPure(FallbackQueries) /\ [][FallbackAnalysis]_vars

\* C21: the fallback analyzer is first-match-wins over the order planning,
\* assessment, content-creation, visual, communication, interactive: query_type
\* and primary_categories are those of the first group with a keyword inside
\* the lower-cased query; with no such group query_type is UNCLEAR and
\* primary_categories is empty; confidence_level is 0.7 in every case.
C21_FirstMatchWins ==
    last.op = "_fallback_analysis" =>
        LET matching == {i \in 1..Len(keyword_groups) :
                            AnyIn(keyword_groups[i].keywords, Lower(last.query))}
            first == CHOOSE i \in matching : \A j \in matching : i <= j
        IN  /\ [i \in 1..Len(keyword_groups) |-> keyword_groups[i].primary_categories]
                  = <<<<"Planning">>, <<"Assessment">>, <<"Content Creation">>,
                      <<"Visual Content">>, <<"Communication">>,
                      <<"Interactive Content", "Content Creation">>>>
            /\ last.returned.confidence_level = FALLBACK_CONFIDENCE
            /\ IF matching = {}
               THEN /\ last.returned.query_type = "UNCLEAR"
                    /\ last.returned.primary_categories = <<>>
               ELSE /\ last.returned.query_type = keyword_groups[first].query_type
                    /\ last.returned.primary_categories =
                           keyword_groups[first].primary_categories

C21_Witness ==
    /\ last.op = "_fallback_analysis"
    /\ last.query = "game quiz poster"
    /\ last.returned.query_type = "ASSESSMENT"
    /\ last.returned.primary_categories = <<"Assessment">>

\* C22: the two emotional-keyword checks replace educational_context,
\* human_insight and implied_needs whichever group was chosen, and leave
\* query_type, primary_categories, intent_keywords and confidence_level as the
\* keyword group set them; with a boredom word and an overload word in the
\* query the boredom texts are returned.
C22_EmotionalOverrides ==
    last.op = "_fallback_analysis" =>
        LET query_lower == Lower(last.query)
            group == MatchedGroup(query_lower)
            Texts(r) == <<r.educational_context, r.human_insight, r.implied_needs>>
        IN  /\ last.returned.query_type = group.query_type
            /\ last.returned.primary_categories = group.primary_categories
            /\ last.returned.intent_keywords = group.intent_keywords
            /\ last.returned.confidence_level = FALLBACK_CONFIDENCE
            /\ AnyIn(boredom_words, query_lower) =>
                   Texts(last.returned) = Texts(boredom_override)
            /\ (AnyIn(overwhelm_words, query_lower) /\ ~AnyIn(boredom_words, query_lower)) =>
                   Texts(last.returned) = Texts(overwhelm_override)
            /\ (~AnyIn(overwhelm_words, query_lower) /\ ~AnyIn(boredom_words, query_lower)) =>
                   Texts(last.returned) = Texts(group)

C22_Witness ==
    /\ last.op = "_fallback_analysis"
    /\ last.query = "stressed plan bored"
    /\ last.returned.query_type = "GENERAL_PLANNING"
    /\ last.returned.educational_context = boredom_override.educational_context
    /\ last.returned.implied_needs = boredom_override.implied_needs

(***************************************************************************)
(* IntentClassifier: the response composer                                 *)
(***************************************************************************)

\* the value for a user_context of None
NONE_CONTEXT == [none |-> TRUE]

\* user_context and user_context.get('has_context')
HasHistory(user_context) == Get(user_context, "has_context", FALSE)

\* random.choice(list), r the draw
Choice(list, r) == list[(r % Len(list)) + 1]

MIN_CONTEXT_LENGTH == 30
MAX_CONTEXT_LENGTH == 100
NUM_STYLES == 4

CLARIFYING_QUESTION ==
    "I'd love to help you find the perfect tool! Could you tell me a bit more about "
    \o "what you're trying to accomplish in your classroom? The more specific you "
    \o "can be, the better I can assist you."

\* _generate_clear_helpful_response; rand holds the draws of random.choice
_generate_clear_helpful_response(primary_tools, secondary_tools, semantic_analysis, user_context, recent_queries, rand) ==
    LET \* characters outside ASCII are written by their code point
        POINT_RIGHT == "U+1F449"
    IN
    LET
        \* phrase lists of _generate_clear_helpful_response (lines 358-419)
        closings ==
            <<"Try it out and let me know how it works for you!",
              "Give it a try - I think you'll find it really helpful!",
              "Hope this makes your teaching life a bit easier!",
              "Let me know if you need help with anything else!",
              "I'd love to hear how this works out for you!",
              "Feel free to ask if you need more suggestions!",
              "Hope this is exactly what you were looking for!",
              "Let me know if you want to explore more options!">>
        context_openings(recent) ==
            <<"Great! I see you've been working on " \o recent \o
                 ". Here's what I'd recommend next:",
              "Perfect timing! Since you've been focusing on " \o recent \o
                 ", this will complement that work nicely:",
              "Building on your recent work with " \o recent \o
                 ", here's exactly what you need:",
              "I noticed you've been exploring " \o recent \o
                 ". This next tool will fit perfectly:",
              "Since you're already working on " \o recent \o
                 ", let's add this to your toolkit:",
              "Following up on your " \o recent \o " work, here's a great next step:">>
        openings ==
            <<"I've got just the thing for you!",
              "Here's what I'd recommend:",
              "I think this will be perfect for what you need:",
              "Let me help you with this:",
              "Here's exactly what you're looking for:",
              "I found the perfect tool for your situation:",
              "This should be exactly what you need:",
              "Let me point you in the right direction:">>
        benefit_intros ==
            <<"This will be especially helpful because",
              "Perfect for your situation since",
              "This works great when",
              "You'll find this particularly useful because">>
        opening ==
            IF recent_queries # <<>>
            THEN Choice(context_openings(Lower(recent_queries[1])), rand.opening)
            ELSE Choice(openings, rand.opening)
        context == Get(semantic_analysis, "educational_context", "")
        benefit ==
            IF context # "" /\ Len(context) > MIN_CONTEXT_LENGTH
            THEN Choice(benefit_intros, rand.body) \o " "
                 \o FirstN(Lower(context), MAX_CONTEXT_LENGTH) \o ".\n\n"
            ELSE ""
        main ==
            IF primary_tools # <<>>
            THEN LET tool == primary_tools[1]
                 IN  "**" \o tool.name \o "** - " \o tool.description \o "\n"
                     \o POINT_RIGHT \o " [Get started here](" \o tool.url \o ")\n\n"
                     \o benefit
            ELSE ""
    IN  opening \o "\n\n" \o main \o Choice(closings, rand.closing)

\* _generate_supportive_response
_generate_supportive_response(primary_tools, secondary_tools, semantic_analysis, user_context, recent_queries, rand) ==
    LET LINK == "U+1F517"
        challenge_words ==
            <<"challenge", "difficult", "hard", "struggle", "overwhelmed", "stressed">>
    IN
    LET
        \* phrase lists of _generate_supportive_response (lines 421-492)
        supportive_closings ==
            <<"You're doing amazing work. Remember, every small step makes a " \o
                 "difference for your students!",
              "Keep up the great work - your students are lucky to have " \o
                 "someone who cares so much!",
              "You're making a real difference in your students' lives. I'm " \o
                 "here if you need more help!",
              "Your dedication to your students is inspiring. Feel free to " \o
                 "reach out anytime!",
              "You're on the right track. Teaching is challenging, but you're " \o
                 "handling it beautifully!",
              "Remember, you're doing important work. Every effort you make " \o
                 "matters to your students!",
              "You've got this! Your thoughtful approach to teaching really " \o
                 "shows.",
              "Keep being the amazing teacher you are. Your students benefit " \o
                 "from your care every day!">>
        supportive_openings(recent) ==
            <<"I can see you've been putting a lot of thought into " \o recent \o
                 ". Here's something that should help:",
              "You're doing great work with " \o recent \o
                 "! This next step will build on that perfectly:",
              "Since you've been working on " \o recent \o
                 ", I think you'll really appreciate this tool:",
              "I love seeing your dedication to " \o recent \o
                 ". Here's what I'd suggest next:",
              "You're making real progress with " \o recent \o
                 ". This will take it even further:",
              "Building on your thoughtful work with " \o recent \o
                 ", here's a perfect addition:",
              "Your focus on " \o recent \o
                 " shows you really care about your students. Here's what I " \o
                 "recommend:">>
        encouraging_intros(name) ==
            <<"The **" \o name \o "** is designed exactly for situations like yours.",
              "I think you'll find the **" \o name \o "** really helpful.",
              "The **" \o name \o "** should make this much easier for you.",
              "Many teachers love the **" \o name \o "** for this exact reason.",
              "The **" \o name \o "** is perfect for what you're trying to accomplish.",
              "I've seen great results when teachers use the **" \o name \o
                 "** for this.",
              "The **" \o name \o "** will be a game-changer for your situation.",
              "You'll appreciate how the **" \o name \o "** simplifies this process.">>
        understanding_starts ==
            <<"I understand this can be challenging. Let me help you find " \o
                 "something that'll make it easier:",
              "Teaching challenges are part of the job, but you don't have to " \o
                 "face them alone. Here's what can help:",
              "I can see this is something you're working through. Let me " \o
                 "suggest a tool that should help:",
              "These kinds of challenges are what make teaching both difficult " \o
                 "and rewarding. Here's support:",
              "You're tackling something important here. Let me help you find " \o
                 "the right solution:">>
        supportive_starts ==
            <<"Teaching is such important work, and I'm here to help make it " \o
                 "easier:",
              "I know how much you care about your students. Here's a tool " \o
                 "that can help:",
              "You're looking for ways to improve your teaching - I love that! " \o
                 "Here's what I suggest:",
              "Your dedication to your students really shows. Here's something " \o
                 "that'll support your work:",
              "I can tell you're a thoughtful teacher. Here's a tool that " \o
                 "matches your approach:",
              "You're always thinking about how to do better for your " \o
                 "students. Here's what I recommend:",
              "Your commitment to excellence is inspiring. Let me help you " \o
                 "with this:">>
        context == Get(semantic_analysis, "educational_context", "")
        opening ==
            IF recent_queries # <<>>
            THEN Choice(supportive_openings(Lower(recent_queries[1])), rand.opening)
            ELSE IF AnyIn(challenge_words, Lower(context))
                 THEN Choice(understanding_starts, rand.opening)
                 ELSE Choice(supportive_starts, rand.opening)
        main ==
            IF primary_tools # <<>>
            THEN LET tool == primary_tools[1]
                 IN  Choice(encouraging_intros(tool.name), rand.body) \o " "
                     \o tool.description \o "\n\n"
                     \o LINK \o " [Start using it here](" \o tool.url \o ")\n\n"
            ELSE ""
    IN  opening \o "\n\n" \o main \o Choice(supportive_closings, rand.closing)

\* _generate_practical_direct_response
_generate_practical_direct_response(primary_tools, secondary_tools, semantic_analysis, user_context, recent_queries, rand) ==
    LET
        \* phrase lists of _generate_practical_direct_response (lines 494-553)
        practical_closings ==
            <<"That should get you sorted. Let me know if you need anything " \o "else!",
              "This should handle what you need. Feel free to ask if you want " \o
                 "more options!",
              "That's the most direct solution. Reach out if you need " \o
                 "additional help!",
              "This will get the job done efficiently. Let me know how it " \o "works!",
              "That should solve your problem quickly. Ask if you need more " \o
                 "suggestions!",
              "This is your most straightforward option. Happy to help with " \o
                 "anything else!">>
        practical_openings(recent) ==
            <<"Following up on your " \o recent \o " work, here's what you need:",
              "To build on your " \o recent \o ", I'd go with this:",
              "Since you've been working on " \o recent \o
                 ", this is the logical next step:",
              "Based on your " \o recent \o " focus, here's the best tool:",
              "Continuing your " \o recent \o " work, this will be perfect:",
              "For your " \o recent \o " needs, here's the most efficient solution:">>
        direct_starts ==
            <<"Here's exactly what you need:",
              "The best tool for this is:",
              "I'd recommend this approach:",
              "This will solve your problem:",
              "Here's the most efficient solution:",
              "This is your best option:",
              "The quickest way to handle this:",
              "Here's what will work best:">>
        practical_benefits ==
            <<"Why this works: It's specifically designed for your situation " \o
                 "and will save you time.",
              "The advantage: It's built for exactly what you need and " \o
                 "streamlines the process.",
              "Why it's effective: It handles this task efficiently and gets " \o
                 "results quickly.",
              "The benefit: It's designed to solve this specific problem and " \o
                 "save you effort.",
              "Why I recommend it: It's proven to work well for this exact " \o
                 "situation.",
              "The key: It's tailored for your needs and eliminates the " \o
                 "guesswork.">>
        opening ==
            IF recent_queries # <<>>
            THEN Choice(practical_openings(Lower(recent_queries[1])), rand.opening)
            ELSE Choice(direct_starts, rand.opening)
        main ==
            IF primary_tools # <<>>
            THEN LET tool == primary_tools[1]
                 IN  "**" \o tool.name \o "**\n"
                     \o "What it does: " \o tool.description \o "\n"
                     \o "Access it: " \o tool.url \o "\n\n"
                     \o Choice(practical_benefits, rand.body) \o "\n\n"
            ELSE ""
    IN  opening \o "\n\n" \o main \o Choice(practical_closings, rand.closing)

\* _generate_encouraging_response
_generate_encouraging_response(primary_tools, secondary_tools, semantic_analysis, user_context, recent_queries, rand) ==
    LET ROCKET == "U+1F680"
    IN
    LET
        \* phrase lists of _generate_encouraging_response (lines 555-615)
        motivational_closings ==
            <<"Your students are going to benefit so much from your thoughtful " \o
                 "approach!",
              "Keep up the fantastic work - you're making a real difference!",
              "I can't wait to hear about the positive impact this has on your " \o
                 "classroom!",
              "You're doing incredible work. Your dedication shows in " \o
                 "everything you do!",
              "Your students are so fortunate to have a teacher who cares this " \o
                 "much!",
              "The effort you put in really makes a difference - keep being " \o
                 "amazing!",
              "You're creating such a positive impact on your students' lives!",
              "Your passion for teaching is inspiring. Keep up the excellent " \o
                 "work!">>
        encouraging_openings(recent) ==
            <<"I love seeing your dedication to " \o recent \o
                 "! Here's what will take it to the next level:",
              "You're building something great with your " \o recent \o
                 " work. This will be the perfect addition:",
              "Your focus on " \o recent \o
                 " shows real commitment to your students. Here's what I'd add:",
              "The progress you're making with " \o recent \o
                 " is impressive! Here's what comes next:",
              "Your thoughtful approach to " \o recent \o
                 " is exactly what great teachers do. Here's more support:",
              "I can see how much care you're putting into " \o recent \o
                 ". This will amplify that effort:",
              "Your students are so lucky to have someone focused on " \o recent \o
                 " like you are. Here's what I suggest:">>
        motivational_starts ==
            <<"You're taking all the right steps to improve your teaching!",
              "I can tell you really care about giving your students the best " \o
                 "experience.",
              "This is exactly the kind of thinking that makes great teachers!",
              "Your students are lucky to have someone who thinks this way!",
              "Your commitment to excellence really shows in everything you do.",
              "I love seeing teachers who are always looking for ways to " \o "improve!",
              "You're approaching this with exactly the right mindset.",
              "This kind of dedication is what makes teaching so impactful!">>
        positive_intros(name) ==
            <<"The **" \o name \o "** is going to be a game-changer for you.",
              "You'll love how the **" \o name \o "** streamlines this process.",
              "The **" \o name \o
                 "** is exactly what innovative teachers like you need.",
              "I'm excited for you to try the **" \o name \o
                 "** - it's going to make such a difference!",
              "The **" \o name \o "** will transform how you handle this.",
              "You're going to see amazing results with the **" \o name \o "**.",
              "The **" \o name \o
                 "** is perfect for teachers who care about quality like you do.",
              "I can already imagine how much the **" \o name \o
                 "** will help your students!">>
        opening ==
            IF recent_queries # <<>>
            THEN Choice(encouraging_openings(Lower(recent_queries[1])), rand.opening)
            ELSE Choice(motivational_starts, rand.opening) \o " Here's what I recommend:"
        main ==
            IF primary_tools # <<>>
            THEN LET tool == primary_tools[1]
                 IN  Choice(positive_intros(tool.name), rand.body) \o " "
                     \o tool.description \o "\n\n"
                     \o ROCKET \o " [Start creating amazing results](" \o tool.url
                     \o ")\n\n"
            ELSE ""
    IN  opening \o "\n\n" \o main \o Choice(motivational_closings, rand.closing)

\* the composer without the bypass for two empty lists
GenerateResponseNoBypass(primary_tools, secondary_tools, semantic_analysis, user_context, rand) ==
    LET recent_queries == IF HasHistory(user_context)
                          THEN Get(user_context, "previous_queries", <<>>)
                          ELSE <<>>
        style == rand.style % NUM_STYLES
    IN  IF style = 0
        THEN _generate_clear_helpful_response(primary_tools, secondary_tools,
                 semantic_analysis, user_context, recent_queries, rand)
        ELSE IF style = 1
        THEN _generate_supportive_response(primary_tools, secondary_tools,
                 semantic_analysis, user_context, recent_queries, rand)
        ELSE IF style = 2
        THEN _generate_practical_direct_response(primary_tools, secondary_tools,
                 semantic_analysis, user_context, recent_queries, rand)
        ELSE _generate_encouraging_response(primary_tools, secondary_tools,
                 semantic_analysis, user_context, recent_queries, rand)

\* _generate_response(primary_tools, secondary_tools, semantic_analysis, user_context)
_generate_response(primary_tools, secondary_tools, semantic_analysis, user_context, rand) ==
    IF primary_tools = <<>> /\ secondary_tools = <<>> THEN CLARIFYING_QUESTION
    ELSE
      LET recent_queries == IF HasHistory(user_context)
                            THEN Get(user_context, "previous_queries", <<>>)
                            ELSE <<>>
          style == rand.style % NUM_STYLES
      IN  IF style = 0
          THEN _generate_clear_helpful_response(primary_tools, secondary_tools,
                   semantic_analysis, user_context, recent_queries, rand)
          ELSE IF style = 1
          THEN _generate_supportive_response(primary_tools, secondary_tools,
                   semantic_analysis, user_context, recent_queries, rand)
          ELSE IF style = 2
          THEN _generate_practical_direct_response(primary_tools, secondary_tools,
                   semantic_analysis, user_context, recent_queries, rand)
          ELSE _generate_encouraging_response(primary_tools, secondary_tools,
                   semantic_analysis, user_context, recent_queries, rand)

(***************************************************************************)
(* IntentClassifier.classify_intent                                        *)
(***************************************************************************)

\* JSON analyses the chat completion may answer: a full one, and one that
\* leaves keys out and carries a confidence_level above 1
ModelAnalyses ==
    {[query_type |-> "GENERAL_PLANNING",
      intent_keywords |-> <<"planning">>,
      primary_categories |-> <<"Planning">>,
      secondary_categories |-> <<"Assessment">>,
      confidence_level |-> 85,
      reasoning |-> "The teacher wants to plan lessons",
      specific_tools_mentioned |-> <<>>,
      educational_context |-> "Planning a unit is hard work for a busy teacher"],
     [query_type |-> "ASSESSMENT",
      intent_keywords |-> <<"quiz">>,
      primary_categories |-> <<"Assessment">>,
      confidence_level |-> 150]}

\* what one chat completion call can do: raise ("error"), answer text without
\* a brace-delimited object ("no_json"), answer text whose brace-delimited part
\* json.loads rejects ("bad_json"), or answer a JSON analysis ("json")
ModelOutcomes ==
    {[kind |-> "error"], [kind |-> "no_json"], [kind |-> "bad_json"]}
    \cup {[kind |-> "json", analysis |-> a] : a \in ModelAnalyses}

\* an exception that leaves the function, as a value
RAISED == [raised |-> TRUE]

\* the analyzer without the except clause around json.loads
AnalyzeBadJsonUnhandled(query, user_context, outcome) ==
    IF outcome.kind = "json" THEN outcome.analysis
    ELSE IF outcome.kind = "bad_json" THEN RAISED
    ELSE fallback_analysis[query]

\* _analyze_with_openai(query, user_context): the parsed analysis of the reply;
\* the fallback analysis when the call raises (except clause), the reply holds
\* no brace-delimited object (else branch) or json.loads raises (except clause)
_analyze_with_openai(query, user_context, outcome) ==
    IF outcome.kind = "json" THEN outcome.analysis
    ELSE IF outcome.kind = "no_json" THEN fallback_analysis[query]
    ELSE fallback_analysis[query]

\* classify_intent(user_query, user_context): the IntentResult
classify_intent(user_query, user_context, outcome, rand) ==
    LET cleaned == cleaned_query[user_query]
        semantic_analysis == _analyze_with_openai(cleaned, user_context, outcome)
        matched == _find_matching_tools(semantic_analysis)
        primary_tools == matched[1]
        secondary_tools == matched[2]
    IN  [primary_tools |-> primary_tools,
         secondary_tools |-> secondary_tools,
         confidence_score |->
             _calculate_confidence(semantic_analysis, primary_tools, secondary_tools),
         reasoning |-> Get(semantic_analysis, "reasoning", ""),
         query_type |-> Get(semantic_analysis, "query_type", "UNCLEAR"),
         suggested_response |->
             _generate_response(primary_tools, secondary_tools, semantic_analysis,
                                user_context, rand)]

(***************************************************************************)
(* The classifier on its own: one call on each input of ClassifyInputs     *)
(***************************************************************************)

\* the largest draw of one random.choice; the longest phrase list has 8 entries
MaxDraw == 7

\* the draws of one call: the strategy, and an index for each phrase list; the
\* opening and the closing are drawn together
RandomDraws ==
    {[style |-> s, opening |-> r, body |-> b, closing |-> r] :
        s \in 0..(NUM_STYLES - 1), r \in 0..MaxDraw, b \in 0..MaxDraw}

ClassifyInputs ==
    LET \* user_context values: None, no history, a history
        ClassifyContexts ==
            {NONE_CONTEXT, NoContext,
             [has_context |-> TRUE,
              previous_queries |-> <<"Teaching context: I teach math. Subject focus: math">>,
              frequent_categories |-> <<"ASSESSMENT">>,
              recent_tools |-> <<>>,
              teaching_patterns |-> <<"Frequently asks about assessment related topics",
                                      "Has used 0 different tools recently">>]}
    IN
    [user_query : ChatQueries, user_context : ClassifyContexts, outcome : ModelOutcomes]

\* one call classify_intent(args.user_query, args.user_context)
ClassifyIntent ==
    /\ last.op = "init"
    /\ \E rand \in RandomDraws :
          last' = [op |-> "classify_intent",
                   user_query |-> args.user_query,
                   user_context |-> args.user_context,
                   outcome |-> args.outcome,
                   rand |-> rand,
                   llm_calls |-> 1,
                   analysis |-> _analyze_with_openai(cleaned_query[args.user_query],
                                                     args.user_context, args.outcome),
                   returned |-> classify_intent(args.user_query, args.user_context,
                                                args.outcome, rand)]
    /\ UNCHANGED <<memVars, analyticsVars, args, calls>>

SpecClassify == InitPure(ClassifyInputs) /\ [][ClassifyIntent]_vars

\* C7: on the fallback path (the language model call fails) and with no user
\* history, classify_intent("My students seem bored during class") returns a
\* non-empty primary list drawn from Interactive Content / Content Creation, a
\* confidence_score in [0,1] and a non-empty suggested_response that contains
\* the name of the first primary tool.
C7_BoredQueryGetsTools ==
    (/\ last.op = "classify_intent"
     /\ last.user_query = "My students seem bored during class"
     /\ last.outcome.kind = "error"
     /\ ~HasHistory(last.user_context)) =>
        /\ last.returned.primary_tools # <<>>
        /\ \A i \in 1..Len(last.returned.primary_tools) :
               last.returned.primary_tools[i].category
                   \in {"Interactive Content", "Content Creation"}
        /\ last.returned.confidence_score >= 0
        /\ last.returned.confidence_score <= 100
        /\ last.returned.suggested_response # ""
        /\ Contains(last.returned.suggested_response,
                    last.returned.primary_tools[1].name)

C16_ClarifyOrNameTool ==
    last.op = "classify_intent" =>
        LET primary_tools == last.returned.primary_tools
            secondary_tools == last.returned.secondary_tools
            response == last.returned.suggested_response
        IN  /\ (response = CLARIFYING_QUESTION)
                   <=> (primary_tools = <<>> /\ secondary_tools = <<>>)
            /\ ~(primary_tools = <<>> /\ secondary_tools = <<>>) =>
                   /\ primary_tools # <<>>
                   /\ Contains(response, primary_tools[1].name)
                   /\ Contains(response, primary_tools[1].url)

C16_Witness ==
    /\ last.op = "classify_intent"
    /\ last.rand.style = 1
    /\ last.rand.body = MaxDraw
    /\ last.rand.opening = MaxDraw - 1
    /\ last.returned.primary_tools # <<>>
    /\ last.returned.suggested_response # CLARIFYING_QUESTION
    /\ Contains(last.returned.suggested_response, last.returned.primary_tools[1].url)

(***************************************************************************)
(* EducationalMemoryService.get_personalized_recommendations               *)
(***************************************************************************)

BASE_SCORE == 100
USED_BEFORE_BOOST == 30
FREQUENT_CATEGORY_BOOST == 20

\* lines 382-404: one recommendation with its score and reasons
ScoredRecommendation(tool, recent_tools, frequent_categories) ==
    LET used == InList(tool.name, recent_tools)
        frequent == InList(tool.category, frequent_categories)
    IN  [personalization_score |->
             BASE_SCORE + (IF used THEN USED_BEFORE_BOOST ELSE 0)
                        + (IF frequent THEN FREQUENT_CATEGORY_BOOST ELSE 0),
         personalization_reasons |->
             (IF used THEN <<"You've used this tool before">> ELSE <<>>)
             \o (IF frequent
                 THEN <<"You frequently work with " \o Lower(tool.category) \o " tools">>
                 ELSE <<>>)]
        @@ tool

\* the scored list left in base order
SortNone(scored) == scored

\* line 407: list.sort by personalization_score, reverse=True; the sort is stable
WithScore(scored, s) == SelectSeq(scored, LAMBDA r : r.personalization_score = s)

SortByScore(scored) ==
    WithScore(scored, BASE_SCORE + USED_BEFORE_BOOST + FREQUENT_CATEGORY_BOOST)
    \o WithScore(scored, BASE_SCORE + USED_BEFORE_BOOST)
    \o WithScore(scored, BASE_SCORE + FREQUENT_CATEGORY_BOOST)
    \o WithScore(scored, BASE_SCORE)

\* every recommendation answered with a personalization reason
PersonalizedWithReasons(context, base_recommendations) ==
    [i \in 1..Len(base_recommendations) |->
        [name |-> base_recommendations[i].name,
         personalization_reasons |-> <<"You've used this tool before">>]]

\* get_personalized_recommendations(user_id, current_query, base_recommendations),
\* context the value its own get_user_context call returns. tool["category"] of a
\* recommendation without that key raises KeyError, which the except clause
\* answers with base_recommendations.
get_personalized_recommendations(context, base_recommendations) ==
    IF ~Get(context, "has_context", FALSE) THEN base_recommendations
    ELSE IF \E i \in 1..Len(base_recommendations) :
                "category" \notin DOMAIN base_recommendations[i]
    THEN base_recommendations
    ELSE SortByScore([i \in 1..Len(base_recommendations) |->
                         ScoredRecommendation(base_recommendations[i],
                                              Get(context, "recent_tools", <<>>),
                                              Get(context, "frequent_categories", <<>>))])

(***************************************************************************)
(* POST /chat (api/endpoints.py chat_endpoint)                             *)
(***************************************************************************)

BAD_REQUEST == 400
INTERNAL_SERVER_ERROR == 500
OK == 200

\* not request.query.strip()
is_blank == [q \in Queries |-> Strip(q) = ""]

\* line 72: request.user_id, or an anonymous id from request.timestamp or the
\* clock; an empty user_id and a timestamp of 0 count as absent
RequestUserId(request, now) ==
    IF request.user_id # "" THEN request.user_id
    ELSE "anonymous_" \o ToString(IF request.timestamp # 0 THEN request.timestamp ELSE now)

\* lines 91-97: ToolRecommendation(name, description, url) of each primary tool
Recommendations(primary_tools) ==
    [i \in 1..Len(primary_tools) |->
        [name |-> primary_tools[i].name,
         description |-> primary_tools[i].description,
         url |-> primary_tools[i].url]]

\* lines 106-109: the descriptions extended by the personalization reasons
PersonalizedDescriptions(recommendations, personalized_recommendations) ==
    [i \in 1..Len(recommendations) |->
        IF /\ i <= Len(personalized_recommendations)
           /\ Get(personalized_recommendations[i], "personalization_reasons", <<>>) # <<>>
        THEN [recommendations[i] EXCEPT
                 !.description =
                     @ \o " (Personalized: "
                       \o Join(personalized_recommendations[i].personalization_reasons, ", ")
                       \o ")"]
        ELSE recommendations[i]]

\* lines 91-111: the recommendations of the reply, personalized when the user
\* has history; personal_context is the context get_personalized_recommendations
\* retrieves itself
ChatRecommendations(primary_tools, user_context, personal_context) ==
    IF Get(user_context, "has_context", FALSE)
    THEN PersonalizedDescriptions(
             Recommendations(primary_tools),
             get_personalized_recommendations(personal_context,
                                              Recommendations(primary_tools)))
    ELSE Recommendations(primary_tools)

\* requests of one run
MaxRequests == 2

\* the largest draw of random.choice in a chat request; the three draws after the
\* style are taken equal
MaxChatDraw == 0

ChatRequests ==
    {[query |-> q, user_id |-> "u1", timestamp |-> 0] : q \in ChatQueries}
    \cup {[query |-> "My students seem bored during class", user_id |-> "",
           timestamp |-> t] : t \in {0, 7}}

\* the call raises, or answers the full analysis
ChatOutcomes ==
    {o \in ModelOutcomes :
        \/ o.kind = "error"
        \/ o.kind = "json" /\ "reasoning" \in DOMAIN o.analysis}

\* where an exception is injected into one request: nowhere, inside one of the
\* three memory service methods the endpoint calls (their own except clauses
\* answer), or in the endpoint's try block around such a call (its except
\* clause answers)
ChatFaults ==
    {"none",
     "service_get_user_context", "endpoint_get_user_context",
     "service_get_personalized_recommendations",
     "endpoint_get_personalized_recommendations",
     "service_store_interaction", "endpoint_store_interaction"}

\* get_user_context's answer from its except clause (lines 362-364)
ErrorContext == [has_context |-> FALSE, context |-> "Error retrieving context"]

\* a call without the except clauses: the exception leaves the call
Unguarded(fault, degraded, value) ==
    IF fault \in DOMAIN degraded THEN RAISED ELSE [value |-> value]

\* try: value / except Exception: degraded[fault], for the faults degraded names
Guarded(fault, degraded, value) ==
    IF fault \in DOMAIN degraded THEN [value |-> degraded[fault]] ELSE [value |-> value]

\* the except clause answering without counting the failed query
ChatFailedUncounted(request, fault, message, counted) ==
    /\ successful_queries' = successful_queries + counted
    /\ last' = [op |-> "chat", request |-> request, fault |-> fault,
                status_code |-> INTERNAL_SERVER_ERROR,
                detail |-> "Internal server error: " \o message]
    /\ UNCHANGED <<memVars, failed_queries, args, calls>>

\* the endpoint's except Exception clause (lines 148-151): a failed query is
\* counted and HTTPException(500) raised; counted is 1 when
\* increment_successful_queries (line 113) ran before the exception
ChatFailed(request, fault, message, counted) ==
    /\ failed_queries' = failed_queries + 1
    /\ successful_queries' = successful_queries + counted
    /\ last' = [op |-> "chat", request |-> request, fault |-> fault,
                status_code |-> INTERNAL_SERVER_ERROR,
                detail |-> "Internal server error: " \o message]
    /\ UNCHANGED <<memVars, args, calls>>

\* lines 113-146: the successful query is counted, the interaction stored when
\* the store decision accepts it and the call does not fail, the reply returned
ChatStore(request, fault, outcome, rand, user_id, user_context, intent_result, recommendations) ==
    \E response \in
           {[query_type |-> intent_result.query_type,
             confidence_score |-> intent_result.confidence_score,
             recommendations |->
                 [i \in 1..Len(recommendations) |-> recommendations[i].name],
             reasoning |-> intent_result.reasoning]} :
    \E decision \in {_should_store_memory(request.query, response)} :
    \E stored \in
           {Guarded(fault,
                    [service_store_interaction |-> FALSE,
                     endpoint_store_interaction |-> FALSE],
                    decision[1])} :
       IF "raised" \in DOMAIN stored
       THEN ChatFailed(request, fault, "store_interaction", 1)
       ELSE /\ successful_queries' = successful_queries + 1
            /\ fallback_memory' =
                  IF stored.value
                  THEN StoredMemory(fallback_memory, user_id, request.query,
                                    response, decision[2], clock)
                  ELSE fallback_memory
            /\ clock' = IF stored.value THEN clock + 1 ELSE clock
            /\ writes' = IF stored.value THEN writes + 1 ELSE writes
            /\ last' = [op |-> "chat", request |-> request, fault |-> fault,
                        status_code |-> OK,
                        user_id |-> user_id,
                        user_context |-> user_context,
                        outcome |-> outcome,
                        rand |-> rand,
                        recommendations |-> recommendations,
                        stored |-> stored.value,
                        body |-> [response_text |-> intent_result.suggested_response,
                                  timestamp |-> clock]]
            /\ UNCHANGED <<failed_queries, args, calls>>

\* lines 88-111: the intent is classified with the context and the
\* recommendations are personalized
ChatClassify(request, fault, outcome, rand, user_id, user_context) ==
    \E personal_context \in UserContexts(fallback_memory, user_id) :
    \E intent_result \in
           {classify_intent(request.query, user_context, outcome, rand)} :
    \E recommendations \in
           {Guarded(fault,
                    [service_get_personalized_recommendations |->
                         Recommendations(intent_result.primary_tools),
                     endpoint_get_personalized_recommendations |->
                         Recommendations(intent_result.primary_tools)],
                    ChatRecommendations(intent_result.primary_tools, user_context,
                                        personal_context))} :
       IF "raised" \in DOMAIN recommendations
       THEN ChatFailed(request, fault, "get_personalized_recommendations", 0)
       ELSE ChatStore(request, fault, outcome, rand, user_id, user_context,
                      intent_result, recommendations.value)

\* chat_endpoint(request). The HTTPException(400) of a blank query is raised
\* inside the try block and caught by its except Exception clause, which counts a
\* failed query and raises HTTPException(500).
Chat(request, outcome, fault) ==
    LET ChatDraws ==
            {[style |-> s, opening |-> r, body |-> r, closing |-> r] :
                s \in 0..(NUM_STYLES - 1), r \in 0..MaxChatDraw}
        \* str(HTTPException(400, "Query cannot be empty")), put into the 500 detail
        EMPTY_QUERY_DETAIL == "400: Query cannot be empty"
    IN
    /\ request_count < MaxRequests
    /\ request_count' = request_count + 1
    /\ IF is_blank[request.query]
       THEN ChatFailed(request, fault, EMPTY_QUERY_DETAIL, 0)
       ELSE \E user_id \in {RequestUserId(request, clock)} :
            \E context \in UserContexts(fallback_memory, user_id), rand \in ChatDraws :
            \E user_context \in
                   {Guarded(fault,
                            [service_get_user_context |-> ErrorContext,
                             endpoint_get_user_context |-> NONE_CONTEXT],
                            context)} :
               IF "raised" \in DOMAIN user_context
               THEN ChatFailed(request, fault, "get_user_context", 0)
               ELSE ChatClassify(request, fault, outcome, rand, user_id,
                                 user_context.value)

SpecChat ==
    Init /\ [][\E request \in ChatRequests, outcome \in ChatOutcomes, fault \in ChatFaults :
                  Chat(request, outcome, fault)]_vars

\* C1: a POST /chat request whose query is empty or only whitespace is answered
\* with the client error 400, not with the server error 500.
C1_BlankQueryIsClientError ==
    (last.op = "chat" /\ Strip(last.request.query) = "") =>
        /\ last.status_code = BAD_REQUEST
        /\ last.status_code # INTERNAL_SERVER_ERROR

\* C13: a failure of the memory service during POST /chat (retrieving the
\* context, personalizing, or storing) leaves the outcome as it is: the request
\* succeeds with the response text the classifier computed, successful_queries
\* is incremented and failed_queries is not.
C13_MemoryFailureTolerated ==
    [][(/\ last'.op = "chat"
        /\ last'.fault # "none"
        /\ ~is_blank[last'.request.query]) =>
          /\ last'.status_code = OK
          /\ last'.body.response_text =
                 classify_intent(last'.request.query, last'.user_context,
                                 last'.outcome, last'.rand).suggested_response
          /\ successful_queries' = successful_queries + 1
          /\ failed_queries' = failed_queries]_vars

C13_Witness ==
    /\ last.op = "chat"
    /\ last.fault = "service_get_personalized_recommendations"
    /\ last.status_code = OK
    /\ last.user_context.has_context
    /\ last.recommendations # <<>>
    /\ successful_queries = 2
    /\ failed_queries = 0

(***************************************************************************)
(* The opening line: interactions stored for one user, then the user's     *)
(* context retrieved and a query classified with it                        *)
(***************************************************************************)

MaxOpeningWrites == 4

\* endpoints.py lines 78-88: get_user_context(user_id, query), then
\* classify_intent(query, user_context) on the fallback path of the analyzer
ClassifyWithContext(user_id, user_query, rand) ==
    /\ \E user_context \in UserContexts(fallback_memory, user_id) :
          last' = [op |-> "classify_with_context", user_id |-> user_id,
                   user_query |-> user_query, user_context |-> user_context,
                   rand |-> rand,
                   returned |-> classify_intent(user_query, user_context,
                                                [kind |-> "error"], rand)]
    /\ UNCHANGED <<memVars, analyticsVars, args, calls>>

NextOpening ==
    LET OpeningQuery == "Can you make a QUIZ, please?"
    IN
    \/ \E u \in DeepUserIds, c \in DeepStoreCalls :
          StoreInteraction(u, c[1], c[2], MaxOpeningWrites)
    \/ \E u \in DeepUserIds, rand \in {d \in RandomDraws : d.body = 0} :
          ClassifyWithContext(u, OpeningQuery, rand)

SpecOpening == Init /\ [][NextOpening]_vars

\* C23: with the fallback store and a user who has two or more stored entries,
\* the text inserted in the personalized opening of the response is the most
\* recently stored personalization sentence.
C23_OpeningNamesMostRecent ==
    (/\ last.op = "classify_with_context"
     /\ Len(EntriesOf(fallback_memory, last.user_id)) >= 2
     /\ Get(last.user_context, "previous_queries", <<>>) # <<>>
     /\ last.returned.suggested_response # CLARIFYING_QUESTION) =>
        LET entries == EntriesOf(fallback_memory, last.user_id)
            most_recent == entries[Len(entries)].personalization_content
        IN  Contains(last.returned.suggested_response, Lower(most_recent))

\* C24: after an interaction is stored whose personalization sentence contains
\* "Successfully recommended: T for Q needs", the next get_user_context for
\* that user lists the tool name T in recent_tools (here on the fallback store,
\* T = Quiz Generator and Q = ASSESSMENT).
C24_RecommendedToolIsRecent ==
    (/\ last.op = "get_user_context"
     /\ "user_id" \in DOMAIN last
     /\ EntriesOf(fallback_memory, last.user_id) # <<>>
     /\ LET entries == EntriesOf(fallback_memory, last.user_id)
        IN  /\ "personalization_content" \in DOMAIN entries[Len(entries)]
            /\ Contains(entries[Len(entries)].personalization_content,
                        "Successfully recommended: Quiz Generator for ASSESSMENT needs")) =>
        InList("Quiz Generator", Get(last.returned, "recent_tools", <<>>))

(***************************************************************************)
(* get_personalized_recommendations on its own: one call on each list of   *)
(* base recommendations, for each context its get_user_context call gives  *)
(***************************************************************************)

\* catalog records, and a record as chat_endpoint passes it (without category)
BaseRecommendations ==
    {tools["quiz-generator"], tools["lesson-planner"], tools["assessment-generator"]}
    \cup {[name |-> "Quiz Generator",
            description |-> tools["quiz-generator"].description,
            url |-> tools["quiz-generator"].url]}

MaxRecommendations == 3

RecommendInputs ==
    LET \* the memories the context is built from (Platform format)
        RecommendHistory ==
            <<"Successfully recommended: Quiz Generator for ASSESSMENT needs",
              "Subject focus: Assessment">>
    IN
    [relevant_memories : SubLists(RecommendHistory),
     base_recommendations :
         UNION {[1..k -> BaseRecommendations] : k \in 0..MaxRecommendations}]

\* one call get_personalized_recommendations(user_id, query, base_recommendations)
GetPersonalizedRecommendations ==
    /\ last.op = "init"
    /\ \E context \in MemoryContexts(TRUE, args.relevant_memories) :
          last' = [op |-> "get_personalized_recommendations",
                   context |-> context,
                   base_recommendations |-> args.base_recommendations,
                   returned |-> get_personalized_recommendations(
                                    context, args.base_recommendations)]
    /\ UNCHANGED <<memVars, analyticsVars, args, calls>>

SpecRecommend == InitPure(RecommendInputs) /\ [][GetPersonalizedRecommendations]_vars

\* the returned list is one scored copy of each base recommendation, by
\* non-increasing score, base order kept among equal scores
IsScoredAndSorted(returned, base_recommendations, context) ==
    LET Score(tool) ==
            BASE_SCORE
            + (IF InList(tool.name, context.recent_tools) THEN USED_BEFORE_BOOST ELSE 0)
            + (IF InList(tool.category, context.frequent_categories)
               THEN FREQUENT_CATEGORY_BOOST ELSE 0)
        Base(r) == [f \in DOMAIN r \ {"personalization_score", "personalization_reasons"}
                       |-> r[f]]
        scores == {Score(base_recommendations[i]) : i \in 1..Len(base_recommendations)}
    IN  /\ Len(returned) = Len(base_recommendations)
        /\ \A k \in 1..Len(returned) :
               /\ "personalization_score" \in DOMAIN returned[k]
               /\ returned[k].personalization_score = Score(Base(returned[k]))
        /\ \A k, l \in 1..Len(returned) :
               k < l => returned[k].personalization_score >= returned[l].personalization_score
        /\ \A sc \in scores :
               [k \in 1..Len(SelectSeq(returned, LAMBDA r : r.personalization_score = sc))
                   |-> Base(SelectSeq(returned,
                                      LAMBDA r : r.personalization_score = sc)[k])]
                 = SelectSeq(base_recommendations, LAMBDA tool : Score(tool) = sc)

NumCalls == 2

CallIds == 1..NumCalls

ConcurrentUser == "u1"

\* the query of call t: both are stored (an indicator, a long unclear query)
CallQuery(t) ==
    IF t % 2 = 1 THEN "I teach math" ELSE "please find something useful for tomorrow"

CallResponse == [query_type |-> "UNCLEAR", confidence_score |-> 40, recommendations |-> <<>>]

InitConcurrent ==
    LET \* the user's list when the calls start: no key, or a list below, at and above
        \* the cap (update_user_preferences appends without trimming)
        InitialLists ==
            LET full == EntriesOf(StoreRun(ConcurrentUser, CallQuery(1), CallResponse, MAX_ENTRIES),
                                  ConcurrentUser)
            IN  {<<>>, Tail(full), full, Append(full, PreferenceEntry([style |-> "visual"], MAX_ENTRIES))}
    IN
    /\ \E key_present \in BOOLEAN, list \in InitialLists :
          /\ ~key_present => list = <<>>
          /\ calls = [pc |-> [t \in CallIds |-> "test_key"],
                      held |-> [t \in CallIds |-> 0],
                      sliced |-> [t \in CallIds |-> <<>>],
                      entry |-> [t \in CallIds |-> [written |-> FALSE]],
                      objects |-> IF key_present THEN <<list>> ELSE <<>>,
                      current |-> IF key_present THEN 1 ELSE 0,
                      initial |-> list]
          /\ fallback_memory = IF key_present
                               THEN WithEntries(<<>>, ConcurrentUser, list) ELSE <<>>
    /\ clock = MAX_ENTRIES + 1
    /\ writes = 0
    /\ request_count = 0
    /\ successful_queries = 0
    /\ failed_queries = 0
    /\ args = None
    /\ last = [op |-> "init"]

\* the test of line 211 with the cap never exceeded
OverCapNever(list) == FALSE

\* line 211: len(self.fallback_memory[user_id]) > 50
OverCap(list) == Len(list) > MAX_ENTRIES

\* one step of call t of store_interaction(ConcurrentUser, CallQuery(t), CallResponse)
StoreStep(t) ==
    LET \* fallback_memory as the dictionary and the list objects give it
        StoreOf(c) ==
            IF c.current = 0 THEN <<>> ELSE WithEntries(<<>>, ConcurrentUser, c.objects[c.current])
    IN
    LET pc == calls.pc[t]
        entry == StoreEntry(CallQuery(t), CallResponse,
                            _should_store_memory(CallQuery(t), CallResponse)[2], clock)
        after ==
            CASE pc = "test_key" ->
                   [calls EXCEPT !.pc[t] = IF calls.current = 0 THEN "create_key"
                                           ELSE "load_list"]
              [] pc = "create_key" ->
                   [calls EXCEPT !.objects = Append(@, <<>>),
                                 !.current = Len(calls.objects) + 1,
                                 !.pc[t] = "load_list"]
              [] pc = "load_list" ->
                   [calls EXCEPT !.held[t] = calls.current, !.pc[t] = "append"]
              [] pc = "append" ->
                   [calls EXCEPT !.objects[calls.held[t]] = Append(@, entry),
                                 !.entry[t] = entry,
                                 !.pc[t] = "load_len"]
              [] pc = "load_len" ->
                   [calls EXCEPT !.held[t] = calls.current, !.pc[t] = "test_len"]
              [] pc = "test_len" ->
                   [calls EXCEPT !.pc[t] = IF OverCap(calls.objects[calls.held[t]])
                                           THEN "load_slice" ELSE "done"]
              [] pc = "load_slice" ->
                   [calls EXCEPT !.held[t] = calls.current, !.pc[t] = "slice"]
              [] pc = "slice" ->
                   [calls EXCEPT !.sliced[t] = LastN(calls.objects[calls.held[t]], MAX_ENTRIES),
                                 !.pc[t] = "assign"]
              [] pc = "assign" ->
                   [calls EXCEPT !.objects = Append(@, calls.sliced[t]),
                                 !.current = Len(calls.objects) + 1,
                                 !.pc[t] = "done"]
    IN  /\ _should_store_memory(CallQuery(t), CallResponse)[1]
        /\ pc # "done"
        /\ calls' = after
        /\ fallback_memory' = StoreOf(after)
        /\ clock' = IF pc = "append" THEN clock + 1 ELSE clock
        /\ writes' = IF pc = "append" THEN writes + 1 ELSE writes
        /\ last' = [op |-> "store_interaction_step", call |-> t, step |-> pc,
                    user_id |-> ConcurrentUser]
        /\ UNCHANGED <<analyticsVars, args>>

SpecConcurrent == InitConcurrent /\ [][\E t \in CallIds : StoreStep(t)]_vars

\* C26: when the concurrent store_interaction calls for one user have all
\* finished, every element of the user's list is a complete entry, one that
\* was in the list before or one written by a call, and the list has at most
\* 50 entries.
C26_ConcurrentStores ==
    (\A t \in CallIds : calls.pc[t] = "done") =>
        LET list == EntriesOf(fallback_memory, ConcurrentUser)
        IN  /\ Len(list) <= MAX_ENTRIES
            /\ \A i \in 1..Len(list) :
                   list[i] \in Range(calls.initial) \cup {calls.entry[t] : t \in CallIds}

\* both calls have finished at the cap and the entry of one of them is lost
C26_Witness ==
    /\ \A t \in CallIds : calls.pc[t] = "done"
    /\ Len(EntriesOf(fallback_memory, ConcurrentUser)) = MAX_ENTRIES
    /\ \E t \in CallIds : calls.entry[t] \notin Range(EntriesOf(fallback_memory, ConcurrentUser))
    /\ \E t \in CallIds : calls.entry[t] \in Range(EntriesOf(fallback_memory, ConcurrentUser))

\* C27: for every semantic analysis, a matcher result with an empty primary
\* list has an empty secondary list too, so the score classify_intent computes
\* from the two lists is, before clamping, the confidence_level minus the 0.3
\* penalty with no 0.05 bonus added.
C27_EmptyPrimaryEmptySecondary ==
    (last.op = "_find_matching_tools" /\ last.returned[1] = <<>>) =>
        /\ last.returned[2] = <<>>
        /\ AdjustedConfidence(last.semantic_analysis, last.returned[1], last.returned[2])
             = DEFAULT_CONFIDENCE - NO_PRIMARY_PENALTY

\* an analysis that names a tool key and categories, none of them known: the
\* matcher returns no tool at all
C27_Witness ==
    /\ last.op = "_find_matching_tools"
    /\ last.returned = <<<<>>, <<>>>>
    /\ last.semantic_analysis.specific_tools_mentioned # <<>>
    /\ last.semantic_analysis.primary_categories # <<>>
    /\ last.semantic_analysis.secondary_categories # <<>>
    /\ _calculate_confidence(last.semantic_analysis, last.returned[1], last.returned[2])
         = DEFAULT_CONFIDENCE - NO_PRIMARY_PENALTY

\* C28: every POST /chat request adds one to request_count and one to exactly
\* one of successful_queries and failed_queries, a request with an empty or
\* blank query to failed_queries; between requests
\* request_count = successful_queries + failed_queries.
C28_RequestsCountedOnce ==
    /\ [](request_count = successful_queries + failed_queries)
    /\ [][last'.op = "chat" =>
             /\ request_count' = request_count + 1
             /\ \/ successful_queries' = successful_queries + 1
                   /\ failed_queries' = failed_queries
                \/ successful_queries' = successful_queries
                   /\ failed_queries' = failed_queries + 1
             /\ Strip(last'.request.query) = "" =>
                    failed_queries' = failed_queries + 1]_vars

\* a blank query after an answered request: one of each is counted
C28_Witness ==
    /\ last.op = "chat"
    /\ Strip(last.request.query) = ""
    /\ request_count = successful_queries + failed_queries
    /\ successful_queries > 0
    /\ failed_queries > 0

(***************************************************************************)
(* The memory service with its read operations: two users, every           *)
(* operation of the fallback store                                         *)
(***************************************************************************)

MAX_FAVORITES == 3

\* get_user_insights(user_id) on the fallback store, all_memories the entries of
\* the user. common is the element max(set(categories), key=categories.count)
\* returns and focus_order the order of list(set(focus_areas)): both depend on
\* the iteration order of a set.
get_user_insights(all_memories, common, focus_order) ==
    LET categories == CollectField(all_memories, "query_type")
        contents == CollectField(all_memories, "personalization_content")
        recommended(content) ==
            IF Contains(content, "Successfully recommended:")
            THEN LET rec_text == LabelledText(content, "Successfully recommended:")[1]
                     names == SplitOn(Strip(SplitOn(rec_text, " for ")[1]), ",")
                 IN  IF Contains(rec_text, " for ")
                     THEN [i \in 1..Len(names) |-> Strip(names[i])] ELSE <<>>
            ELSE <<>>
        RECURSIVE Extend(_)
        Extend(list) ==
            IF list = <<>> THEN <<>> ELSE recommended(Head(list)) \o Extend(Tail(list))
        found == Extend(contents)
        count(tool) == Cardinality({i \in 1..Len(found) : found[i] = tool})
        keys == {i \in 1..Len(found) :
                    found[i] # "" /\ \A j \in 1..(i - 1) : found[j] # found[i]}
        rank(i) == 1 + Cardinality({k \in keys :
                                       \/ count(found[k]) > count(found[i])
                                       \/ count(found[k]) = count(found[i]) /\ k < i})
        most_common_category == IF categories # <<>> THEN common ELSE "Unknown"
    IN  IF all_memories = <<>>
        THEN [total_interactions |-> 0, insights |-> "No interaction history available"]
        ELSE [total_interactions |-> Len(all_memories),
              most_common_category |-> most_common_category,
              favorite_tools |->
                  [p \in 1..(IF Cardinality(keys) < MAX_FAVORITES
                             THEN Cardinality(keys) ELSE MAX_FAVORITES) |->
                      LET i == CHOOSE k \in keys : rank(k) = p
                      IN  <<found[i], count(found[i])>>],
              teaching_style |->
                  IF most_common_category = "CONTENT_CREATION"
                  THEN "Content Creator - You love creating materials"
                  ELSE IF most_common_category = "ASSESSMENT"
                  THEN "Assessment Focused - You prioritize evaluation"
                  ELSE IF most_common_category = "GENERAL_PLANNING"
                  THEN "Strategic Planner - You focus on organization"
                  ELSE "Balanced Educator - You use varied approaches",
              activity_summary |->
                  "You have " \o ToString(Len(all_memories))
                  \o " personalization memories stored",
              user_preferences |-> <<>>,
              primary_subject |-> "Unknown",
              grade_level |-> "Unknown",
              personalization_focus |-> focus_order]

\* one call get_user_insights(user_id)
GetUserInsights(user_id) ==
    LET all_memories == EntriesOf(fallback_memory, user_id)
        categories == CollectField(all_memories, "query_type")
        store_reasons == CollectField(all_memories, "store_reason")
        focus(word, area) ==
            IF \E i \in 1..Len(store_reasons) : Contains(store_reasons[i], word)
            THEN {area} ELSE {}
        focus_areas ==
            focus("user_preferences", "Preference-based personalization")
            \cup focus("tool_feedback", "Tool feedback integration")
            \cup focus("subject_context", "Subject-specific customization")
            \cup focus("teaching_style", "Teaching style adaptation")
        times(c) == Cardinality({i \in 1..Len(categories) : categories[i] = c})
        most_common ==
            IF categories = <<>> THEN {"Unknown"}
            ELSE {c \in Range(categories) : \A o \in Range(categories) : times(c) >= times(o)}
    IN  /\ \E common \in most_common, focus_order \in Orderings(focus_areas) :
              last' = [op |-> "get_user_insights", user_id |-> user_id,
                       returned |-> get_user_insights(all_memories, common, focus_order)]
        /\ UNCHANGED <<memVars, analyticsVars, args, calls>>

\* one call get_memory_stats() without MEM0_API_KEY
GetMemoryStats ==
    LET RECURSIVE Total(_)
        Total(users) ==
            IF users = {} THEN 0
            ELSE LET u == CHOOSE x \in users : TRUE
                 IN  Len(fallback_memory[u]) + Total(users \ {u})
    IN  /\ last' = [op |-> "get_memory_stats",
                    returned |->
                        [status |-> "active",
                         provider |-> "fallback",
                         total_users |-> Cardinality(DOMAIN fallback_memory),
                         total_interactions |-> Total(DOMAIN fallback_memory),
                         message |-> "Memory service is running with fallback storage"]]
        /\ UNCHANGED <<memVars, analyticsVars, args, calls>>

\* one call get_personalized_recommendations(user_id, _, base_recommendations)
GetRecommendations(user_id, base_recommendations) ==
    /\ \E context \in UserContexts(fallback_memory, user_id) :
          last' = [op |-> "get_personalized_recommendations", user_id |-> user_id,
                   context |-> context,
                   returned |-> get_personalized_recommendations(context,
                                                                 base_recommendations)]
    /\ UNCHANGED <<memVars, analyticsVars, args, calls>>

NextFrame ==
    \/ \E u \in UserIds, q \in StoreQueries, r \in StoreResponses :
          StoreInteraction(u, q, r, MaxWrites)
    \/ \E u \in UserIds, p \in PreferenceValues : UpdateUserPreferences(u, p, MaxWrites)
    \/ \E u \in UserIds : ClearUserMemory(u)
    \/ \E u \in UserIds : GetUserContext(u)
    \/ \E u \in UserIds, r \in BaseRecommendations : GetRecommendations(u, <<r>>)
    \/ \E u \in UserIds : GetUserInsights(u)
    \/ GetMemoryStats

SpecFrame == Init /\ [][NextFrame]_vars

\* C29: on the fallback store, store_interaction, update_user_preferences and
\* clear_user_memory for one user leave the key and the list of every other
\* user as they were, and get_user_context, get_personalized_recommendations,
\* get_user_insights and get_memory_stats leave the whole store as it was.
C29_OtherUsersUntouched ==
    [][/\ last'.op \in {"store_interaction", "update_user_preferences", "clear_user_memory"} =>
             \A other \in UserIds \ {last'.user_id} :
                 /\ other \in DOMAIN fallback_memory' <=> other \in DOMAIN fallback_memory
                 /\ EntriesOf(fallback_memory', other) = EntriesOf(fallback_memory, other)
       /\ last'.op \in {"get_user_context", "get_personalized_recommendations",
                         "get_user_insights", "get_memory_stats"} =>
             fallback_memory' = fallback_memory]_vars

\* an interaction of u2 has been stored while u1 has an entry
C29_Witness ==
    /\ last.op = "store_interaction"
    /\ last.stored
    /\ last.user_id = "u2"
    /\ EntriesOf(fallback_memory, "u1") # <<>>
    /\ EntriesOf(fallback_memory, "u2") # <<>>

====
